---- MODULE Spec2Model ----
(***************************************************************************)
(* A model of the Geberit pushbutton (DevButton_1.pushbutton/script.py):   *)
(* the boundary polygon assembler, the containment classifier, the         *)
(* auto-numbering of the editor grid, and the editor / document workflow   *)
(* with its transactions.                                                  *)
(*                                                                         *)
(* Four specifications share the module's variables; each one drives its   *)
(* own group of variables and leaves the other groups at their idle        *)
(* values:                                                                 *)
(*   SpecPoly    select_boundary_and_gather's segment list and             *)
(*               order_segments_to_polygon                                 *)
(*   SpecInside  is_point_inside_polygon on vertex lists and points        *)
(*   SpecFill    autoFillPipeTagCodes and the post-dialog renumbering      *)
(*   Spec        the editor handlers and the main workflow's transactions  *)
(***************************************************************************)
EXTENDS Integers, Sequences, FiniteSets, TLC

VARIABLES
    \* ---- SpecPoly
    gpc,        \* position in select_boundary_and_gather: "picking" | "assembled"
    segments,   \* the picked segments, in pick order: Seq(<<ptA, ptB>>)
    polygon,    \* order_segments_to_polygon's result (None or Some(points))
    \* ---- SpecInside
    ipc,        \* "drawing" | "gathered"
    ipoly,      \* the polygon handed to the classifier: Seq(point)
    elements_inside, \* the candidate centers classified inside
    \* ---- SpecFill
    fpc,        \* "loading" | "editor" | "closed" | "renumbered"
    frows,      \* the grid rows, in row order: Seq([Id, Category, NewCode])
    fbbox,      \* element id -> center of its bounding box in the active view
    ftext,      \* the text of txtTextNoteCode
    \* ---- Spec
    gathered_elements, \* select_boundary_and_gather's result, the form's
                \* regionElements: Seq(element id)
    pc,         \* "gathering" | "filtering" | "editor" | "renumber" | "comments" | "textnote" | "view" |
                \* "picker" | "sheet" | "done" | "exited" | "raised"
    event,      \* the handler or step that ran last, and the row it was for
    dataGrid,   \* dataGrid.Rows:
                \* Seq([Id, Category, DefaultCode, NewCode, TagStatus])
    txtTextNoteCode, \* txtTextNoteCode.Text
    textNotePlaced, \* self.textNotePlaced
    elems,      \* the document's elements: id -> [Category, host, Comments]
    next_id,    \* the id the host gives the next element it creates
    notes,      \* the text notes the script created, in creation order:
                \* Seq([Corner, Text])
    note_type,  \* whether the document has a TextNoteType
                \* (OfClass(TextNoteType).FirstElement() is not None)
    views,      \* the document's views: set of [Name, ViewType]
    sheets,     \* the document's sheets: set of [SheetNumber, Name, Views]
    result,     \* show_element_editor's result: [Elements, TextNotePlaced, TextNote]
    tx,         \* the Transaction object created last: [name, state]
    err         \* the exception that ended the run, "none" while it runs

polyVars == <<gpc, segments, polygon>>
insideVars == <<ipc, ipoly, elements_inside>>
fillVars == <<fpc, frows, fbbox, ftext>>
docVars == <<elems, next_id, notes, note_type, views, sheets>>
flowVars == <<gathered_elements, pc, event, dataGrid, txtTextNoteCode, textNotePlaced, elems, next_id, notes,
              note_type, views, sheets, result, tx, err>>
vars == <<gpc, segments, polygon, ipc, ipoly, elements_inside,
          fpc, frows, fbbox, ftext,
          gathered_elements, pc, event, dataGrid, txtTextNoteCode, textNotePlaced,
          elems, next_id, notes, note_type, views, sheets, result, tx, err>>

(***************************************************************************)
(* Python values                                                           *)
(***************************************************************************)
None == [some |-> FALSE, val |-> <<>>]
Some(v) == [some |-> TRUE, val |-> v]

Abs(n) == IF n < 0 THEN -n ELSE n

\* XYZ(x, y, z)
XYZ(x, y, z) == [X |-> x, Y |-> y, Z |-> z]

\* list.pop(idx), idx counted from 1 here
Pop(s, idx) == SubSeq(s, 1, idx - 1) \o SubSeq(s, idx + 1, Len(s))

(***************************************************************************)
(* Polygon assembler.  Lengths are in units of the closeness tolerance     *)
(* (1e-6 model units), so the tolerance itself is 1.                       *)
(***************************************************************************)
tol == 1

points_are_close(pt1, pt2) ==
    /\ Abs(pt1.X - pt2.X) < tol
    /\ Abs(pt1.Y - pt2.Y) < tol
    /\ Abs(pt1.Z - pt2.Z) < tol

\* A plausible slip: the elif branch (lines 140-144) is missing, a segment
\* is only taken in its own direction.
FirstMatchForward(last_pt, segs) ==
    LET hits == {idx \in 1..Len(segs) : points_are_close(last_pt, segs[idx][1])}
    IN IF hits = {} THEN 0 ELSE CHOOSE idx \in hits : \A k \in hits : idx <= k

\* The for loop of one pass of the while loop: the first index whose segment
\* has an endpoint close to last_pt (0 when the loop ends without a break).
FirstMatch(last_pt, segs) ==
    LET hits == {idx \in 1..Len(segs) :
                    \/ points_are_close(last_pt, segs[idx][1])
                    \/ points_are_close(last_pt, segs[idx][2])}
    IN IF hits = {} THEN 0 ELSE CHOOSE idx \in hits : \A k \in hits : idx <= k

\* The while loop: "while segments and changed".  Returns the chain and the
\* segments still in the list when the loop stops.
RECURSIVE Chain(_, _)
Chain(poly, segs) ==
    IF segs = <<>> THEN [polygon |-> poly, rest |-> segs]
    ELSE LET last_pt == poly[Len(poly)]
             idx == FirstMatch(last_pt, segs)
         IN IF idx = 0 THEN [polygon |-> poly, rest |-> segs]
            ELSE LET ptA == segs[idx][1]
                     ptB == segs[idx][2]
                     next == IF points_are_close(last_pt, ptA) THEN ptB ELSE ptA
                 IN Chain(Append(poly, next), Pop(segs, idx))

\* The closing test and the return value.
CloseChain(poly) ==
    IF poly # <<>> /\ points_are_close(poly[1], poly[Len(poly)])
    THEN Some(SubSeq(poly, 1, Len(poly) - 1))
    ELSE None

order_segments_to_polygon(segs) ==
    IF segs = <<>> THEN None
    ELSE CloseChain(Chain(<<segs[1][1], segs[1][2]>>, Tail(segs)).polygon)

\* The segments left in the list when order_segments_to_polygon returns.
Unconsumed(segs) ==
    IF segs = <<>> THEN <<>>
    ELSE Chain(<<segs[1][1], segs[1][2]>>, Tail(segs)).rest

(***************************************************************************)
(* SpecPoly: the user picks detail lines one by one (PickObjects returns   *)
(* them in pick order, each line once); select_boundary_and_gather turns   *)
(* them into segments and calls order_segments_to_polygon.                 *)
(***************************************************************************)
MaxSegs == 4

\* The end points the document's detail lines use: the corners of a square.
Corners == {XYZ(0, 0, 0), XYZ(2, 0, 0), XYZ(2, 2, 0), XYZ(0, 2, 0)}

\* The document's detail lines: every directed line between two corners.
DetailLines == {s \in Corners \X Corners : s[1] # s[2]}

InSeq(x, s) == \E i \in 1..Len(s) : s[i] = x

PolyIdle == gpc = "idle" /\ segments = <<>> /\ polygon = None
InsideIdle == ipc = "idle" /\ ipoly = <<>> /\ elements_inside = {}
FillIdle == fpc = "idle" /\ frows = <<>> /\ fbbox = <<>> /\ ftext = <<>>
NoTransaction == [name |-> "", state |-> "none"]
NoEvent == [handler |-> "", row |-> 0]
NoResult == [Elements |-> <<>>, TextNotePlaced |-> FALSE, TextNote |-> <<>>]
FlowIdle ==
    /\ gathered_elements = <<>>
    /\ pc = "idle" /\ event = NoEvent /\ dataGrid = <<>> /\ txtTextNoteCode = <<>>
    /\ textNotePlaced = FALSE /\ elems = <<>> /\ next_id = 0 /\ notes = <<>>
    /\ note_type = FALSE
    /\ views = {} /\ sheets = {} /\ result = NoResult
    /\ tx = NoTransaction /\ err = "none"

PolyInit == gpc = "picking" /\ segments = <<>> /\ polygon = None

\* lines 185-193: one more picked line becomes a segment
PickLine(line) ==
    /\ gpc = "picking"
    /\ Len(segments) < MaxSegs
    /\ ~InSeq(line, segments)
    /\ segments' = Append(segments, line)
    /\ UNCHANGED <<gpc, polygon>>
    /\ UNCHANGED <<insideVars, fillVars, flowVars>>

\* line 195: polygon = order_segments_to_polygon(segments[:])
Assemble ==
    /\ gpc = "picking"
    /\ polygon' = order_segments_to_polygon(segments)
    /\ gpc' = "assembled"
    /\ UNCHANGED segments
    /\ UNCHANGED <<insideVars, fillVars, flowVars>>

PolyNext ==
    \/ \E line \in DetailLines : PickLine(line)
    \/ Assemble

InitPoly == PolyInit /\ InsideIdle /\ FillIdle /\ FlowIdle

SpecPoly == InitPoly /\ [][PolyNext]_vars

(***************************************************************************)
(* Containment classifier.  A classified point is a rational point         *)
(* [X, Y, D] standing for (X/D, Y/D) with D > 0; polygon vertices are      *)
(* integer points.  The code's test                                        *)
(*     x < (xj - xi) * (y - yi) / ((yj - yi) or 1e-12) + xi                *)
(* is evaluated only when (yi > y) != (yj > y), hence with yj - yi # 0     *)
(* (the 1e-12 floor is never used); both sides are multiplied by           *)
(* D * (yj - yi), turning the comparison round when yj - yi < 0.  On the   *)
(* integer and half-integer inputs of the model the double computation     *)
(* decides the comparison as the exact one does.                           *)
(***************************************************************************)
RPoint(x, y, d) == [X |-> x, Y |-> y, D |-> d]

\* line 164-166: the condition that toggles "inside" for the edge (j, i)
EdgeToggles(point, pi, pj) ==
    LET dy == pj.Y - pi.Y
        lhs == (point.X - pi.X * point.D) * dy
        rhs == (pj.X - pi.X) * (point.Y - pi.Y * point.D)
    IN /\ (pi.Y * point.D > point.Y) # (pj.Y * point.D > point.Y)
       /\ IF dy > 0 THEN lhs < rhs ELSE lhs > rhs

\* lines 159-168: the loop over i, j trailing i
RECURSIVE InsideLoop(_, _, _, _, _)
InsideLoop(point, poly, i, j, in) ==
    IF i > Len(poly) THEN in
    ELSE InsideLoop(point, poly, i + 1, i,
                    IF EdgeToggles(point, poly[i], poly[j]) THEN ~in ELSE in)

\* A plausible slip: j starts at the first vertex instead of the last one, so the
\* closing edge is never tested.
is_point_inside_polygon_no_closing_edge(point, poly) ==
    InsideLoop(point, poly, 1, 1, FALSE)

\* A plausible slip: the straddle test compares one end with >= and the other
\* with >, so an edge ending at the ray's height is counted on one side only.
is_point_inside_polygon_uneven_straddle(point, poly) ==
    LET Flip(i) == LET j == IF i = 1 THEN Len(poly) ELSE i - 1
                       dy == poly[j].Y - poly[i].Y
                       lhs == (point.X - poly[i].X * point.D) * dy
                       rhs == (poly[j].X - poly[i].X) * (point.Y - poly[i].Y * point.D)
                   IN /\ (poly[i].Y * point.D >= point.Y) # (poly[j].Y * point.D > point.Y)
                      /\ IF dy > 0 THEN lhs < rhs ELSE IF dy < 0 THEN lhs > rhs
                         ELSE point.X < poly[i].X * point.D
    IN Cardinality({i \in 1..Len(poly) : Flip(i)}) % 2 = 1

is_point_inside_polygon(point, poly) ==
    InsideLoop(point, poly, 1, Len(poly), FALSE)

(***************************************************************************)
(* SpecInside: a polygon is drawn vertex by vertex on a small grid; the    *)
(* gather loop of select_boundary_and_gather (lines 207-217) then          *)
(* classifies every candidate center.                                      *)
(***************************************************************************)
MaxVerts == 4

\* The points a vertex may be drawn at: they hold the unit square, triangles,
\* concave and self-crossing quadrilaterals and collinear runs.
GridPoints ==
    {XYZ(0, 0, 0), XYZ(1, 0, 0), XYZ(2, 0, 0), XYZ(0, 1, 0), XYZ(1, 1, 0),
     XYZ(1, 2, 0), XYZ(2, 2, 0)}

\* sum of f over 1..n
RECURSIVE SumTo(_, _)
SumTo(f, n) == IF n = 0 THEN 0 ELSE f[n] + SumTo(f, n - 1)

\* The mean of the vertices, (sum X / n, sum Y / n).
VertexCentroid(poly) ==
    RPoint(SumTo([i \in 1..Len(poly) |-> poly[i].X], Len(poly)),
           SumTo([i \in 1..Len(poly) |-> poly[i].Y], Len(poly)),
           Len(poly))

NextIdx(poly, i) == IF i = Len(poly) THEN 1 ELSE i + 1

\* Twice the signed area (shoelace formula).
Area2(poly) ==
    SumTo([i \in 1..Len(poly) |->
              poly[i].X * poly[NextIdx(poly, i)].Y
              - poly[NextIdx(poly, i)].X * poly[i].Y], Len(poly))

\* The centroid of the enclosed area, (Cx, Cy) = (sum (xi + xj) ci, sum (yi + yj) ci)
\* / (3 * Area2); the sign is moved into the numerators to keep D > 0.
AreaCentroid(poly) ==
    LET c == [i \in 1..Len(poly) |->
                 poly[i].X * poly[NextIdx(poly, i)].Y
                 - poly[NextIdx(poly, i)].X * poly[i].Y]
        sx == SumTo([i \in 1..Len(poly) |->
                        (poly[i].X + poly[NextIdx(poly, i)].X) * c[i]], Len(poly))
        sy == SumTo([i \in 1..Len(poly) |->
                        (poly[i].Y + poly[NextIdx(poly, i)].Y) * c[i]], Len(poly))
        a == Area2(poly)
    IN IF a > 0 THEN RPoint(sx, sy, 3 * a) ELSE RPoint(-sx, -sy, -3 * a)

\* The candidate centers: the points at whole and half coordinates from -0.5 to
\* 2.5 (the grid and half a cell around it), and the polygon's two centroids.
HalfCoords == {-1, 0, 1, 2, 3, 4, 5}
Centers(poly) ==
    {RPoint(x, y, 2) : x \in HalfCoords, y \in HalfCoords}
    \cup (IF Len(poly) >= 1 THEN {VertexCentroid(poly)} ELSE {})
    \cup (IF Len(poly) >= 1 /\ Area2(poly) # 0 THEN {AreaCentroid(poly)} ELSE {})

InsideInit == ipc = "drawing" /\ ipoly = <<>> /\ elements_inside = {}

AddVertex(p) ==
    /\ ipc = "drawing"
    /\ Len(ipoly) < MaxVerts
    /\ ipoly' = Append(ipoly, p)
    /\ UNCHANGED <<ipc, elements_inside>>
    /\ UNCHANGED <<polyVars, fillVars, flowVars>>

\* lines 207-217
GatherInside ==
    /\ ipc = "drawing"
    /\ Len(ipoly) >= 1
    /\ elements_inside' = {c \in Centers(ipoly) : is_point_inside_polygon(c, ipoly)}
    /\ ipc' = "gathered"
    /\ UNCHANGED ipoly
    /\ UNCHANGED <<polyVars, fillVars, flowVars>>

InsideNext ==
    \/ \E p \in GridPoints : AddVertex(p)
    \/ GatherInside

InitInside == InsideInit /\ PolyIdle /\ FillIdle /\ FlowIdle

SpecInside == InitInside /\ [][InsideNext]_vars

(***************************************************************************)
(* Text.  A Python string is a sequence of one-character strings.          *)
(***************************************************************************)
DigitChars == <<"0", "1", "2", "3", "4", "5", "6", "7", "8", "9">>
IsDigit(c) == \E d \in 1..10 : DigitChars[d] = c
DigitVal(c) == (CHOOSE d \in 1..10 : DigitChars[d] = c) - 1

\* str(n) for n >= 0
RECURSIVE Str(_)
Str(n) == IF n < 10 THEN <<DigitChars[n + 1]>>
          ELSE Str(n \div 10) \o <<DigitChars[(n % 10) + 1]>>

\* int(s): None stands for ValueError
RECURSIVE DigitsValue(_)
DigitsValue(s) == IF s = <<>> THEN 0
                  ELSE 10 * DigitsValue(SubSeq(s, 1, Len(s) - 1)) + DigitVal(s[Len(s)])
int(s) == IF s # <<>> /\ \A k \in 1..Len(s) : IsDigit(s[k])
          THEN Some(DigitsValue(s)) ELSE None

\* s.strip()
RECURSIVE Strip(_)
Strip(s) == IF s = <<>> THEN s
            ELSE IF s[1] = " " THEN Strip(Tail(s))
            ELSE IF s[Len(s)] = " " THEN Strip(SubSeq(s, 1, Len(s) - 1))
            ELSE s

\* re.search(r"([\d\.]+)", raw): the first maximal run of digits and dots
IsCodeChar(c) == IsDigit(c) \/ c = "."

\* A plausible slip: the last run of digits and dots is taken.
re_search_last(raw) ==
    LET ends == {k \in 1..Len(raw) : IsCodeChar(raw[k])}
    IN IF ends = {} THEN None
       ELSE LET to == CHOOSE k \in ends : \A m \in ends : k >= m
                from == CHOOSE k \in 1..to :
                            /\ \A m \in k..to : IsCodeChar(raw[m])
                            /\ k = 1 \/ ~IsCodeChar(raw[k - 1])
            IN Some(SubSeq(raw, from, to))

re_search(raw) ==
    LET starts == {k \in 1..Len(raw) : IsCodeChar(raw[k])}
    IN IF starts = {} THEN None
       ELSE LET from == CHOOSE k \in starts : \A m \in starts : k <= m
                to == CHOOSE k \in from..Len(raw) :
                          /\ \A m \in from..k : IsCodeChar(raw[m])
                          /\ k = Len(raw) \/ ~IsCodeChar(raw[k + 1])
            IN Some(SubSeq(raw, from, to))

\* s.split(".")
RECURSIVE Split(_)
Split(s) ==
    LET dots == {k \in 1..Len(s) : s[k] = "."}
    IN IF dots = {} THEN <<s>>
       ELSE LET d == CHOOSE k \in dots : \A m \in dots : k <= m
            IN <<SubSeq(s, 1, d - 1)>> \o Split(SubSeq(s, d + 1, Len(s)))

Dot == <<".">>

(***************************************************************************)
(* Auto-numbering.  Centers are in units of a quarter of the clustering    *)
(* tolerance (0.0025 model units), so the tolerance 0.01 is 4.             *)
(***************************************************************************)
cluster_tol == 4

\* lines 507-521: None when the text holds no digit or dot
ParseBase(text) ==
    LET m == re_search(Strip(text))
    IN IF ~m.some THEN None
       ELSE LET base == m.val
                parts == Split(base)
            IN Some(IF Len(parts) >= 3
                    THEN [base |-> base,
                          prefix |-> parts[1] \o Dot \o parts[2],
                          base_n |-> IF int(parts[3]).some THEN int(parts[3]).val ELSE 0]
                    ELSE [base |-> base, prefix |-> base, base_n |-> 0])

\* lines 524-532: the row indices of one category, ascending
RECURSIVE RowsOf(_, _, _)
RowsOf(rows, cat, i) ==
    IF i > Len(rows) THEN <<>>
    ELSE (IF rows[i].Category = cat THEN <<i>> ELSE <<>>) \o RowsOf(rows, cat, i + 1)

\* lines 536-548 and 573-585: (idx, ctr) for each listed row
CentersOf(rows, idxs, bbox) ==
    [k \in 1..Len(idxs) |-> [idx |-> idxs[k], ctr |-> bbox[rows[idxs[k]].Id]]]

\* sort key (c.X, c.Y), compared as Python compares tuples
KeyLess(a, b) == a.X < b.X \/ (a.X = b.X /\ a.Y < b.Y)

\* list.sort(key=...): a stable sort of records with a field "key"
RECURSIVE InsertByKey(_, _)
InsertByKey(sorted, item) ==
    IF sorted = <<>> THEN <<item>>
    ELSE IF KeyLess(item.key, sorted[Len(sorted)].key)
         THEN Append(InsertByKey(SubSeq(sorted, 1, Len(sorted) - 1), item),
                     sorted[Len(sorted)])
         ELSE Append(sorted, item)

RECURSIVE SortByKey(_)
SortByKey(s) == IF s = <<>> THEN <<>>
                ELSE InsertByKey(SortByKey(SubSeq(s, 1, Len(s) - 1)), s[Len(s)])

\* A plausible slip: the tolerance taken as a planar (Euclidean) distance.
NearFirstByDistance(ctr, cl) ==
    (ctr.X - cl[1].ctr.X) * (ctr.X - cl[1].ctr.X)
    + (ctr.Y - cl[1].ctr.Y) * (ctr.Y - cl[1].ctr.Y) < cluster_tol * cluster_tol

\* line 556: the test against a cluster's first center
NearFirst(ctr, cl) ==
    Abs(ctr.X - cl[1].ctr.X) < cluster_tol /\ Abs(ctr.Y - cl[1].ctr.Y) < cluster_tol

\* A plausible slip: the item joins the last cluster it is near.
PlaceInLastNearCluster(clusters, item) ==
    LET near == {k \in 1..Len(clusters) : NearFirst(item.ctr, clusters[k])}
    IN IF near = {} THEN Append(clusters, <<item>>)
       ELSE LET k == CHOOSE n \in near : \A m \in near : n >= m
            IN [clusters EXCEPT ![k] = Append(@, item)]

\* lines 552-561: place one (idx, ctr) into the first cluster it is near
PlaceInCluster(clusters, item) ==
    LET near == {k \in 1..Len(clusters) : NearFirst(item.ctr, clusters[k])}
    IN IF near = {} THEN Append(clusters, <<item>>)
       ELSE LET k == CHOOSE n \in near : \A m \in near : n <= m
            IN [clusters EXCEPT ![k] = Append(@, item)]

RECURSIVE MakeClusters(_)
MakeClusters(fit_centers) ==
    IF fit_centers = <<>> THEN <<>>
    ELSE PlaceInCluster(MakeClusters(SubSeq(fit_centers, 1, Len(fit_centers) - 1)),
                        fit_centers[Len(fit_centers)])

\* line 563: clusters.sort(key=lambda c: (c[0][1].X, c[0][1].Y))
SortedClusters(fit_centers) ==
    LET cls == MakeClusters(fit_centers)
        keyed == [k \in 1..Len(cls) |-> [key |-> cls[k][1].ctr, val |-> cls[k]]]
        sorted == SortByKey(keyed)
    IN [k \in 1..Len(sorted) |-> sorted[k].val]

\* A plausible slip: the pipes sorted by (Y, X) instead of (X, Y).
SortedPipesByYX(pipe_centers) ==
    LET keyed == [k \in 1..Len(pipe_centers) |->
                     [key |-> [X |-> pipe_centers[k].ctr.Y, Y |-> pipe_centers[k].ctr.X],
                      val |-> pipe_centers[k]]]
        sorted == SortByKey(keyed)
    IN [k \in 1..Len(sorted) |-> sorted[k].val]

\* lines 587 and 1069: sort(key=lambda x: (x[1].X, x[1].Y))
SortedPipes(pipe_centers) ==
    LET keyed == [k \in 1..Len(pipe_centers) |->
                     [key |-> pipe_centers[k].ctr, val |-> pipe_centers[k]]]
        sorted == SortByKey(keyed)
    IN [k \in 1..Len(sorted) |-> sorted[k].val]

\* A plausible slip: every tag row is numbered, also beyond the pipes.
MirrorsAnyCount(pos, pipe_count) == TRUE

\* lines 592-594: the tag row at position pos of tag_rows is reached by the
\* loop over the pipes
MirrorsPipe(pos, pipe_count) == pos <= pipe_count

\* lines 523-597: the rows after autoFillPipeTagCodes with a parsed base
AutoFilled(rows, bbox, b) ==
    LET fit_rows == RowsOf(rows, "Pipe Fittings", 1)
        pipe_rows == RowsOf(rows, "Pipes", 1)
        tag_rows == RowsOf(rows, "Pipe Tags", 1)
        clusters == SortedClusters(CentersOf(rows, fit_rows, bbox))
        pipe_centers == SortedPipes(CentersOf(rows, pipe_rows, bbox))
        ClusterOf(r) == CHOOSE i \in 1..Len(clusters) :
                            \E k \in 1..Len(clusters[i]) : clusters[i][k].idx = r
        RankOf(r) == CHOOSE i \in 1..Len(pipe_centers) : pipe_centers[i].idx = r
        TagPos(r) == CHOOSE i \in 1..Len(tag_rows) : tag_rows[i] = r
    IN [r \in 1..Len(rows) |->
          IF rows[r].Category = "Pipe Fittings"
          THEN [rows[r] EXCEPT !.NewCode = b.prefix \o Dot \o Str(b.base_n + ClusterOf(r) - 1)]
          ELSE IF rows[r].Category = "Pipes"
          THEN [rows[r] EXCEPT !.NewCode = b.base \o Dot \o Str(RankOf(r))]
          ELSE IF rows[r].Category = "Pipe Tags" /\ MirrorsPipe(TagPos(r), Len(pipe_centers))
          THEN [rows[r] EXCEPT !.NewCode = b.base \o Dot \o Str(TagPos(r))]
          ELSE rows[r]]

\* lines 1052-1078: the entries after the post-dialog renumbering
Renumbered(rows, bbox, text) ==
    LET m == re_search(Strip(text))
        base == IF m.some THEN m.val ELSE <<"0">>
        pipe_entries == SortedPipes(CentersOf(rows, RowsOf(rows, "Pipes", 1), bbox))
        RankOf(r) == CHOOSE i \in 1..Len(pipe_entries) : pipe_entries[i].idx = r
    IN [r \in 1..Len(rows) |->
          IF rows[r].Category = "Pipes"
          THEN [rows[r] EXCEPT !.NewCode = base \o Dot \o Str(RankOf(r))]
          ELSE IF rows[r].Category = "Pipe Fittings"
          THEN [rows[r] EXCEPT !.NewCode = base]
          ELSE rows[r]]

(***************************************************************************)
(* SpecFill: the grid is populated row by row (lines 429-440), the user    *)
(* types a text and clicks "Auto-fill Pipe Tag Codes" any number of times, *)
(* presses OK, and the script renumbers (the branch taken when no text     *)
(* note was placed in the editor).  Every Pipes and Pipe Fittings row is a *)
(* gathered element, so it had a bounding box in the active view when it   *)
(* was gathered (line 210); SpecFill covers the runs in which the host     *)
(* still returns it, where the XYZ(0, 0, 0) fallbacks of lines 547 and 584 *)
(* are not taken.                                                          *)
(***************************************************************************)
MaxRows == 3

Categories == {"Pipes", "Pipe Fittings", "Pipe Tags", "Text Notes"}

\* The centers an element may have: along X apart by less than the tolerance
\* (0 and 3, 3 and 4) or by exactly the tolerance (0 and 4), along Y by less
\* than the tolerance; (0, 0) and (3, 3) are farther apart than the tolerance
\* as a distance and nearer than it along each axis.
CenterPoints == {XYZ(x, y, 0) : x \in {0, 3, 4}, y \in {0, 3}}

OldCode == <<"o", "l", "d">>

\* The texts typed into txtTextNoteCode.
Texts == { <<"4", ".", "1", ".", "1">>,
           <<" ", "N", "7", ".", "2">>,
           <<"n", "o", "n", "e">> }

FillInit == fpc = "loading" /\ frows = <<>> /\ fbbox = <<>> /\ ftext = <<>>

\* lines 429-440: one more row; the element's id is its row number
AddRow(cat, ctr) ==
    /\ fpc = "loading"
    /\ Len(frows) < MaxRows
    /\ cat \in {"Pipe Tags", "Text Notes"} => ctr = XYZ(0, 0, 0)
    /\ frows' = Append(frows, [Id |-> Len(frows) + 1, Category |-> cat,
                               NewCode |-> OldCode])
    /\ fbbox' = Append(fbbox, ctr)
    /\ UNCHANGED <<fpc, ftext>>
    /\ UNCHANGED <<polyVars, insideVars, flowVars>>

\* line 858: form.ShowDialog()
ShowEditor ==
    /\ fpc = "loading"
    /\ fpc' = "editor"
    /\ UNCHANGED <<frows, fbbox, ftext>>
    /\ UNCHANGED <<polyVars, insideVars, flowVars>>

\* lines 505-597, with the text typed before the click
AutoFillClick(text) ==
    /\ fpc = "editor"
    /\ ftext' = text
    /\ frows' = IF ParseBase(text).some
                THEN AutoFilled(frows, fbbox, ParseBase(text).val)
                ELSE frows
    /\ UNCHANGED <<fpc, fbbox>>
    /\ UNCHANGED <<polyVars, insideVars, flowVars>>

\* lines 813-834 and 1046: OK closes the editor with the rows as they are
FillOK ==
    /\ fpc = "editor"
    /\ fpc' = "closed"
    /\ UNCHANGED <<frows, fbbox, ftext>>
    /\ UNCHANGED <<polyVars, insideVars, flowVars>>

\* lines 1050-1078
RenumberPipes ==
    /\ fpc = "closed"
    /\ frows' = Renumbered(frows, fbbox, ftext)
    /\ fpc' = "renumbered"
    /\ UNCHANGED <<fbbox, ftext>>
    /\ UNCHANGED <<polyVars, insideVars, flowVars>>

FillNext ==
    \/ \E cat \in Categories, ctr \in CenterPoints : AddRow(cat, ctr)
    \/ ShowEditor
    \/ \E text \in Texts : AutoFillClick(text)
    \/ FillOK
    \/ RenumberPipes

InitFill == FillInit /\ PolyIdle /\ InsideIdle /\ FlowIdle

SpecFill == InitFill /\ [][FillNext]_vars

(***************************************************************************)
(* SpecType: the editor open on a grid of one fitting and one pipe; the    *)
(* user types the text note code character by character and clicks         *)
(* "Auto-fill Pipe Tag Codes" on whatever text is there.                   *)
(***************************************************************************)
MaxText == 7

\* The characters typed into txtTextNoteCode.
TypedChars == {"1", "2", ".", " "}

\* lines 429-440: the fitting (id 1) and the pipe (id 2), their centers apart
TypeInit ==
    /\ fpc = "editor"
    /\ frows = << [Id |-> 1, Category |-> "Pipe Fittings", NewCode |-> OldCode],
                  [Id |-> 2, Category |-> "Pipes", NewCode |-> OldCode] >>
    /\ fbbox = <<XYZ(0, 0, 0), XYZ(4, 0, 0)>>
    /\ ftext = <<>>

\* one more character in txtTextNoteCode
TypeChar(c) ==
    /\ fpc \in {"editor", "filled"}
    /\ Len(ftext) < MaxText
    /\ ftext' = Append(ftext, c)
    /\ fpc' = "editor"
    /\ UNCHANGED <<frows, fbbox>>
    /\ UNCHANGED <<polyVars, insideVars, flowVars>>

\* lines 505-597 on the text as typed
AutoFillTyped ==
    /\ fpc = "editor"
    /\ frows' = IF ParseBase(ftext).some
                THEN AutoFilled(frows, fbbox, ParseBase(ftext).val)
                ELSE frows
    /\ fpc' = "filled"
    /\ UNCHANGED <<fbbox, ftext>>
    /\ UNCHANGED <<polyVars, insideVars, flowVars>>

TypeNext ==
    \/ \E c \in TypedChars : TypeChar(c)
    \/ AutoFillTyped

InitType == TypeInit /\ PolyIdle /\ InsideIdle /\ FlowIdle

SpecType == InitType /\ [][TypeNext]_vars

(***************************************************************************)
(* Spec: the editor and the main workflow (lines 1041-1281) on one         *)
(* document.  The document holds a pipe (id 1), a pipe fitting (id 2),     *)
(* possibly a pipe tag (id 3) hosted on the pipe, a floor plan named       *)
(* "5.1" and a sheet numbered "7".  Pipe and fitting were gathered by the  *)
(* region; the tag may have been gathered too.                             *)
(*                                                                         *)
(* A handler or a workflow step is one action.  The host's answers (a      *)
(* call succeeds or throws, an element has a bounding box in the active    *)
(* view or not) are inputs of the action that asks.  Nothing in the script *)
(* catches an exception that leaves a handler or a step, so it ends the    *)
(* run (pc = "raised"); sys.exit ends it with pc = "exited".  A write made *)
(* inside a transaction that is never committed or rolled back stays in    *)
(* the model's document as the transaction's pending change.               *)
(***************************************************************************)
MaxNewTags == 1
MaxNotes == 1

HostCategories == {"Pipes", "Pipe Fittings"}

Element(cat, host, comments) ==
    [Category |-> cat, host |-> host, Comments |-> comments, Name |-> <<>>]

\* e.Name of a fitting family with and without the marker
FittingNames == {<<"B", "D", "N", "5">>, <<"T", "e", "e">>}

Fitting(name) == [Element("Pipe Fittings", 0, <<>>) EXCEPT !.Name = name]

\* str.find(sub): the lowest index (from 0) at which sub occurs, else -1
find(s, sub) ==
    LET hits == {i \in 0..(Len(s) - Len(sub)) : SubSeq(s, i + 1, i + Len(sub)) = sub}
    IN IF hits = {} THEN -1 ELSE CHOOSE i \in hits : \A j \in hits : i <= j

\* The document before the script runs.
Document(pretagged) ==
    [id \in (IF pretagged THEN 1..3 ELSE 1..2) |->
        IF id = 1 THEN Element("Pipes", 0, OldCode)
        ELSE IF id = 2 THEN Fitting(<<"B", "D", "N", "5">>)
        ELSE Element("Pipe Tags", 1, <<>>)]

\* gathered_elements (line 1036), in collector order
Gathered(tag_gathered) == IF tag_gathered THEN <<1, 2, 3>> ELSE <<1, 2>>

\* The centers of the bounding boxes of pipe and fitting in the active view.
bbox_center == <<XYZ(0, 0, 0), XYZ(3, 0, 0)>>

\* el.get_BoundingBox(uidoc.ActiveView) of pipe, fitting and tag
BoundingBox ==
    << [Min |-> XYZ(-1, -1, 0), Max |-> XYZ(1, 1, 0)],
       [Min |-> XYZ(2, -1, 0), Max |-> XYZ(4, 1, 0)],
       [Min |-> XYZ(-2, 1, 0), Max |-> XYZ(0, 2, 0)] >>

min(a, b) == IF b < a THEN b ELSE a
max(a, b) == IF b > a THEN b ELSE a

\* lines 255-276: the loop of get_region_bounding_box; overall is None
\* while valid_found is False; an element deleted meanwhile is skipped
RECURSIVE OverallBox(_, _, _)
OverallBox(elements, els, overall) ==
    IF elements = <<>> THEN overall
    ELSE LET el == Head(elements)
             bbox == BoundingBox[el]
         IN IF el \notin DOMAIN els
            THEN OverallBox(Tail(elements), els, overall)
            ELSE IF ~overall.some
            THEN OverallBox(Tail(elements), els, Some(bbox))
            ELSE OverallBox(Tail(elements), els,
                    Some([Min |-> XYZ(min(overall.val.Min.X, bbox.Min.X),
                                      min(overall.val.Min.Y, bbox.Min.Y),
                                      min(overall.val.Min.Z, bbox.Min.Z)),
                          Max |-> XYZ(max(overall.val.Max.X, bbox.Max.X),
                                      max(overall.val.Max.Y, bbox.Max.Y),
                                      max(overall.val.Max.Z, bbox.Max.Z))]))

\* lines 246-283: get_region_bounding_box, as <<overall_min, overall_max>>
get_region_bounding_box(elements, els) ==
    LET overall == OverallBox(elements, els, None)
    IN IF ~overall.some
       THEN <<XYZ(0, 0, 0), XYZ(0, 0, 0)>>
       ELSE <<overall.val.Min, overall.val.Max>>

PlanView(name) == [Name |-> name, ViewType |-> "FloorPlan"]
View3D(name) == [Name |-> name, ViewType |-> "ThreeD"]
Sheet(number, name, placed) == [SheetNumber |-> number, Name |-> name, Views |-> placed]

ExistingViews == {PlanView(<<"5", ".", "1">>)}
ExistingSheets == {Sheet(<<"7">>, <<"P", "r", "e", "f", "a", "b", " ", "7">>, {})}

\* FilteredElementCollector(doc).OfCategory(OST_PipeTags), in id order
RECURSIVE SortedIds(_)
SortedIds(S) ==
    IF S = {} THEN <<>>
    ELSE LET m == CHOOSE x \in S : \A y \in S : x <= y
         IN <<m>> \o SortedIds(S \ {m})

all_pipe_tags(els) == SortedIds({id \in DOMAIN els : els[id].Category = "Pipe Tags"})

\* the tag elements whose tagged element is h
TagsOn(els, h) == {id \in DOMAIN els : els[id].Category = "Pipe Tags" /\ els[id].host = h}

Entry(id, cat, default_code, tag_status) ==
    [Id |-> id, Category |-> cat, DefaultCode |-> default_code,
     NewCode |-> default_code, TagStatus |-> tag_status]

\* lines 887-922: the tags whose host pipe is in the region, with the host's code
RECURSIVE HostedTagEntries(_, _, _)
HostedTagEntries(els, tags, pipe_ids) ==
    IF tags = <<>> THEN <<>>
    ELSE (IF els[Head(tags)].host \in pipe_ids
          THEN <<Entry(Head(tags), "Pipe Tags", els[els[Head(tags)].host].Comments, "Yes")>>
          ELSE <<>>) \o HostedTagEntries(els, Tail(tags), pipe_ids)

\* lines 924-1028: one entry per gathered element
GatheredEntry(els, id) ==
    LET cat == els[id].Category
    IN Entry(id, cat, els[id].Comments,
             IF cat = "Pipes" THEN (IF TagsOn(els, id) # {} THEN "Yes" ELSE "No")
             ELSE IF cat = "Pipe Fittings"
                  THEN (IF els[id].Name # <<>> /\ find(els[id].Name, <<"D", "N">>) >= 0
                        THEN "No" ELSE "")
             ELSE IF cat = "Pipe Tags" THEN "Yes"
             ELSE "")

\* lines 924-1028: the entries of the gathered elements of the four categories
RECURSIVE GatheredEntries(_, _)
GatheredEntries(els, gathered) ==
    IF gathered = <<>> THEN <<>>
    ELSE (IF els[Head(gathered)].Category \in Categories
          THEN <<GatheredEntry(els, Head(gathered))>>
          ELSE <<>>) \o GatheredEntries(els, Tail(gathered))

\* lines 866-1030
filter_relevant_elements(els, gathered) ==
    LET pipe_ids == {gathered[k] : k \in
                        {k \in 1..Len(gathered) : els[gathered[k]].Category = "Pipes"}}
    IN HostedTagEntries(els, all_pipe_tags(els), pipe_ids) \o GatheredEntries(els, gathered)

\* lines 442-458: the button a row shows
ButtonText(cat, status) ==
    IF cat \in HostCategories
    THEN (IF status = "Yes" THEN "Remove Tag" ELSE "Add/Place Tag")
    ELSE IF cat = "Pipe Tags" THEN "Remove Tag"
    ELSE ""

\* lines 429-458: the grid built from elements_data
Populate(elements_data) ==
    [k \in 1..Len(elements_data) |->
        [elements_data[k] EXCEPT
            !.TagStatus = ButtonText(elements_data[k].Category, elements_data[k].TagStatus)]]

\* lines 1041-1046 and 314-466: the editor opens on the filtered elements
FlowInit ==
    \E pretagged \in BOOLEAN, tag_gathered \in BOOLEAN :
        /\ tag_gathered => pretagged
        /\ note_type \in BOOLEAN
        /\ elems = Document(pretagged)
        /\ gathered_elements = Gathered(tag_gathered)
        /\ dataGrid = Populate(filter_relevant_elements(elems, gathered_elements))
        /\ next_id = 4
        /\ pc = "editor"
        /\ event = NoEvent
        /\ txtTextNoteCode = <<>>
        /\ textNotePlaced = FALSE
        /\ notes = <<>>
        /\ views = ExistingViews
        /\ sheets = ExistingSheets
        /\ result = NoResult
        /\ tx = NoTransaction
        /\ err = "none"

Started(name) == [name |-> name, state |-> "started"]
Committed(name) == [name |-> name, state |-> "committed"]
\* A plausible slip: the abort path leaves without calling RollBack.
RollBackSkipped(name) == [name |-> name, state |-> "started"]
RolledBack(name) == [name |-> name, state |-> "rolledback"]

Ran(handler, row) == [handler |-> handler, row |-> row]

\* The ids the host gives to the tags created during the run.
NewIds == (Len(Gathered(TRUE)) + 1)..(Len(Gathered(TRUE)) + MaxNewTags)

\* The codes a user types into a NewCode cell.
TypedCodes == { <<"9">> }

\* The texts a user types into txtTextNoteCode: the name of an existing
\* view, the number of an existing sheet behind a prefix, a text with no
\* digit, and a fresh code.
TypedTexts == { <<"5", ".", "1">>, <<" ", "N", "7">>, <<"A">>, <<"8", ".", "2">> }

\* lines 468-476
_add_row(grid, data) == Append(grid, [data EXCEPT !.TagStatus = "Remove Tag"])

\* the user edits a NewCode cell (line 353: the column is not read-only)
EditNewCode(i, code) ==
    /\ pc = "editor"
    /\ i \in 1..Len(dataGrid)
    /\ dataGrid' = [dataGrid EXCEPT ![i].NewCode = code]
    /\ event' = Ran("EditNewCode", i)
    /\ UNCHANGED <<pc, txtTextNoteCode, textNotePlaced, docVars, result, tx, err>>
    /\ UNCHANGED <<polyVars, insideVars, fillVars, gathered_elements, note_type>>

\* the user types into txtTextNoteCode (lines 380-383)
TypeText(typed) ==
    /\ pc = "editor"
    /\ txtTextNoteCode' = typed
    /\ event' = Ran("TypeText", 0)
    /\ UNCHANGED <<pc, dataGrid, textNotePlaced, docVars, result, tx, err>>
    /\ UNCHANGED <<polyVars, insideVars, fillVars, gathered_elements, note_type>>

\* A plausible slip: the created note is not kept.
CreateTextNoteDiscarded(placed, corner, text_note) == placed

\* lines 495-497 and 1103-1105: TextNote.Create
CreateTextNote(placed, corner, text_note) ==
    Append(placed, [Corner |-> corner, Text |-> text_note])

\* lines 478-503: btnPlaceTextNote_Click; ok: TextNote.Create returns a note
PlaceTextNoteClick(ok) ==
    /\ pc = "editor"
    /\ Len(notes) < MaxNotes
    /\ event' = Ran("PlaceTextNote", 0)
    /\ LET text_note_code == Strip(txtTextNoteCode)
           corner == get_region_bounding_box(gathered_elements, elems)[1]
       IN IF text_note_code = <<>> \/ gathered_elements = <<>>
          THEN \* lines 480-487
               /\ ok
               /\ UNCHANGED <<pc, textNotePlaced, notes, tx, err>>
          ELSE IF ~note_type
          THEN \* lines 500-503: "No TextNoteType found."
               /\ ok
               /\ tx' = Committed("Place Text Note")
               /\ UNCHANGED <<pc, textNotePlaced, notes, err>>
          ELSE IF ~ok
          THEN \* TextNote.Create throws: line 503 is not reached
               /\ tx' = Started("Place Text Note")
               /\ err' = "HostError"
               /\ pc' = "raised"
               /\ UNCHANGED <<textNotePlaced, notes>>
          ELSE /\ notes' = CreateTextNote(notes, corner, text_note_code)
               /\ textNotePlaced' = TRUE
               /\ tx' = Committed("Place Text Note")
               /\ UNCHANGED <<pc, err>>
    /\ UNCHANGED <<dataGrid, txtTextNoteCode, elems, next_id, views, sheets, result>>
    /\ UNCHANGED <<polyVars, insideVars, fillVars, gathered_elements, note_type>>

\* lines 609-656: dataGrid_CellContentClick on a host row showing
\* "Add/Place Tag"; bb: host.get_BoundingBox(uidoc.ActiveView) returns a box,
\* ok: IndependentTag.Create returns the tag
AddTagClick(i, bb, ok) ==
    /\ pc = "editor"
    /\ i \in 1..Len(dataGrid)
    /\ dataGrid[i].Category \in HostCategories
    /\ dataGrid[i].TagStatus = "Add/Place Tag"
    /\ next_id \in NewIds
    /\ ~bb => ok
    /\ event' = Ran("AddTag", i)
    /\ LET host_id == dataGrid[i].Id
           flipped == [dataGrid EXCEPT ![i].TagStatus = "Remove Tag"]
       IN IF bb /\ ~ok
          THEN \* IndependentTag.Create throws: line 634 is not reached
               /\ tx' = Started("Add Tag")
               /\ err' = "HostError"
               /\ pc' = "raised"
               /\ UNCHANGED <<dataGrid, elems, next_id>>
          ELSE IF ~bb
          THEN \* lines 618, 634, 637: nothing created, commit, flip; line 640
               \* reads new_tag, which was never assigned
               /\ tx' = Committed("Add Tag")
               /\ dataGrid' = flipped
               /\ err' = "UnboundLocalError"
               /\ pc' = "raised"
               /\ UNCHANGED <<elems, next_id>>
          ELSE /\ elems' = elems @@ (next_id :> Element("Pipe Tags", host_id, <<>>))
               /\ next_id' = next_id + 1
               /\ tx' = Committed("Add Tag")
               /\ dataGrid' = _add_row(flipped,
                                  [Id |-> next_id, Category |-> "Pipe Tags",
                                   DefaultCode |-> elems[host_id].Comments,
                                   NewCode |-> dataGrid[i].NewCode,
                                   TagStatus |-> "Yes"])
               /\ UNCHANGED <<pc, err>>
    /\ UNCHANGED <<txtTextNoteCode, textNotePlaced, notes, views, sheets, result>>
    /\ UNCHANGED <<polyVars, insideVars, fillVars, gathered_elements, note_type>>

\* lines 658-711: dataGrid_CellContentClick on a host row showing
\* "Remove Tag".  The loop of lines 664-688 compares each tagged id with
\* host_eid (line 683), a name that is bound nowhere in the script: the
\* first comparison raises NameError, deleted_id is never set, and lines
\* 690-710 never run.
RemoveTagClick(i) ==
    /\ pc = "editor"
    /\ i \in 1..Len(dataGrid)
    /\ dataGrid[i].Category \in HostCategories
    /\ dataGrid[i].TagStatus = "Remove Tag"
    /\ event' = Ran("RemoveTag", i)
    /\ IF all_pipe_tags(elems) # <<>>
       THEN err' = "NameError" /\ pc' = "raised"
       ELSE UNCHANGED <<pc, err>>
    /\ UNCHANGED <<dataGrid, txtTextNoteCode, textNotePlaced, docVars, result, tx>>
    /\ UNCHANGED <<polyVars, insideVars, fillVars, gathered_elements, note_type>>

\* lines 713-762: dataGrid_CellContentClick on a Pipe Tags row; ok:
\* doc.Delete returns.  doc.Delete throws for an id that is no longer in
\* the document.
RemoveTagRowClick(i, ok) ==
    /\ pc = "editor"
    /\ i \in 1..Len(dataGrid)
    /\ dataGrid[i].Category = "Pipe Tags"
    /\ dataGrid[i].TagStatus = "Remove Tag"
    /\ event' = Ran("RemoveTagRow", i)
    /\ LET tag_id == dataGrid[i].Id
           tag_elem == tag_id \in DOMAIN elems
           host_id == IF tag_elem THEN elems[tag_id].host ELSE 0
           removed == Pop(dataGrid, i)
           host_rows == {k \in 1..Len(removed) :
                            /\ removed[k].Id = host_id
                            /\ removed[k].Category \in HostCategories}
           pr == CHOOSE k \in host_rows : \A m \in host_rows : k <= m
       IN /\ ~tag_elem => ok
          /\ IF ~tag_elem \/ ~ok
             THEN \* doc.Delete throws: line 744 is not reached
                  /\ tx' = Started("Remove Pipe-Tag")
                  /\ err' = IF tag_elem THEN "HostError" ELSE "ArgumentException"
                  /\ pc' = "raised"
                  /\ UNCHANGED <<dataGrid, elems>>
             ELSE /\ elems' = [id \in DOMAIN elems \ {tag_id} |-> elems[id]]
                  /\ tx' = Committed("Remove Pipe-Tag")
                  /\ dataGrid' = IF host_rows = {} THEN removed
                                 ELSE [removed EXCEPT ![pr].TagStatus = "Add/Place Tag"]
                  /\ UNCHANGED <<pc, err>>
    /\ UNCHANGED <<txtTextNoteCode, textNotePlaced, next_id, notes, views, sheets, result>>
    /\ UNCHANGED <<polyVars, insideVars, fillVars, gathered_elements, note_type>>

\* lines 813-834 and 858-859: OK closes the editor and hands over the rows
OKClick ==
    /\ pc = "editor"
    /\ result' = [Elements |-> dataGrid,
                   TextNotePlaced |-> textNotePlaced,
                   TextNote |-> Strip(txtTextNoteCode)]
    /\ pc' = "renumber"
    /\ event' = Ran("OK", 0)
    /\ UNCHANGED <<dataGrid, txtTextNoteCode, textNotePlaced, docVars, tx, err>>
    /\ UNCHANGED <<polyVars, insideVars, fillVars, gathered_elements, note_type>>

\* lines 404, 860 and 1047-1048: Cancel ends the script
CancelClick ==
    /\ pc = "editor"
    /\ pc' = "exited"
    /\ err' = "Operation cancelled by the user."
    /\ event' = Ran("Cancel", 0)
    /\ UNCHANGED <<dataGrid, txtTextNoteCode, textNotePlaced, docVars, result, tx>>
    /\ UNCHANGED <<polyVars, insideVars, fillVars, gathered_elements, note_type>>

\* lines 1050-1078: the renumbering, skipped when a note was placed in the editor
RenumberStep ==
    /\ pc = "renumber"
    /\ result' = IF result.TextNotePlaced THEN result
                 ELSE [result EXCEPT
                          !.Elements = Renumbered(result.Elements, bbox_center,
                                                  result.TextNote)]
    /\ pc' = "comments"
    /\ event' = Ran("Renumber", 0)
    /\ UNCHANGED <<dataGrid, txtTextNoteCode, textNotePlaced, docVars, tx, err>>
    /\ UNCHANGED <<polyVars, insideVars, fillVars, gathered_elements, note_type>>

\* A plausible slip: the element's old code written back instead of the new one.
RECURSIVE SetCommentsFromDefaultCode(_, _, _)
SetCommentsFromDefaultCode(els, entries, n) ==
    IF n = 0 THEN els
    ELSE LET prev == SetCommentsFromDefaultCode(els, entries, n - 1)
             eData == entries[n]
         IN IF eData.Id \in DOMAIN prev
            THEN [prev EXCEPT ![eData.Id].Comments = eData.DefaultCode]
            ELSE prev

\* lines 1083-1090 for the first n entries
RECURSIVE SetComments(_, _, _)
SetComments(els, entries, n) ==
    IF n = 0 THEN els
    ELSE LET prev == SetComments(els, entries, n - 1)
             eData == entries[n]
         IN IF eData.Id \in DOMAIN prev
            THEN [prev EXCEPT ![eData.Id].Comments = eData.NewCode]
            ELSE prev

\* lines 1080-1091: "Update Comments"; failing = 0 when every p.Set returns,
\* else the entry whose p.Set throws
UpdateCommentsStep(failing) ==
    /\ pc = "comments"
    /\ failing \in 0..Len(result.Elements)
    /\ failing > 0 => result.Elements[failing].Id \in DOMAIN elems
    /\ event' = Ran("UpdateComments", 0)
    /\ IF failing = 0
       THEN /\ elems' = SetComments(elems, result.Elements, Len(result.Elements))
            /\ tx' = Committed("Update Comments")
            /\ pc' = "textnote"
            /\ UNCHANGED err
       ELSE \* p.Set throws: line 1091 is not reached
            /\ elems' = SetComments(elems, result.Elements, failing - 1)
            /\ tx' = Started("Update Comments")
            /\ err' = "HostError"
            /\ pc' = "raised"
    /\ UNCHANGED <<dataGrid, txtTextNoteCode, textNotePlaced, next_id, notes, views, sheets,
                   result>>
    /\ UNCHANGED <<polyVars, insideVars, fillVars, gathered_elements, note_type>>

\* lines 1093-1106: "Place Text Note at Region Corner"; ok: TextNote.Create returns
\* A plausible slip: the final step does not look at TextNotePlaced.
NoteAlwaysMissing(res) == TRUE

\* line 1094: not result.get("TextNotePlaced", False)
NoteStillMissing(res) == ~res.TextNotePlaced

TextNoteStep(ok) ==
    /\ pc = "textnote"
    /\ event' = Ran("PlaceTextNoteAtRegionCorner", 0)
    /\ IF ~NoteStillMissing(result)
       THEN /\ ok
            /\ pc' = "view"
            /\ UNCHANGED <<notes, tx, err>>
       ELSE IF ~note_type
       THEN \* line 1101: nothing is created, the empty transaction commits
            /\ ok
            /\ tx' = Committed("Place Text Note at Region Corner")
            /\ pc' = "view"
            /\ UNCHANGED <<notes, err>>
       ELSE IF ~ok
       THEN \* TextNote.Create throws: line 1106 is not reached
            /\ tx' = Started("Place Text Note at Region Corner")
            /\ err' = "HostError"
            /\ pc' = "raised"
            /\ UNCHANGED notes
       ELSE /\ notes' = CreateTextNote(notes,
                            get_region_bounding_box(gathered_elements, elems)[1],
                            result.TextNote)
            /\ tx' = Committed("Place Text Note at Region Corner")
            /\ pc' = "view"
            /\ UNCHANGED err
    /\ UNCHANGED <<dataGrid, txtTextNoteCode, textNotePlaced, elems, next_id, views, sheets,
                   result>>
    /\ UNCHANGED <<polyVars, insideVars, fillVars, gathered_elements, note_type>>

\* lines 1129-1130: the base code of the view and the sheet
BaseOf(text_note) ==
    IF re_search(text_note).some THEN re_search(text_note).val ELSE Strip(text_note)

\* lines 1110-1149: "Create Cropped Plan View"; floor_plan: the active view is
\* a floor plan; failing: the host call that throws ("Duplicate": line 1117,
\* "CropBox": lines 1142-1147).  The host refuses an empty name and a name
\* another floor plan has with ArgumentException.
CroppedViewStep(floor_plan, failing) ==
    /\ pc = "view"
    /\ failing \in {"none", "Duplicate", "CropBox"}
    /\ event' = Ran("CreateCroppedPlanView", 0)
    /\ LET base == BaseOf(result.TextNote)
       IN IF ~floor_plan
          THEN \* lines 1111-1113
               /\ failing = "none"
               /\ pc' = "exited"
               /\ err' = "SystemExit"
               /\ UNCHANGED <<views, tx>>
          ELSE IF failing = "Duplicate"
          THEN /\ tx' = Started("Create Cropped Plan View")
               /\ err' = "HostError"
               /\ pc' = "raised"
               /\ UNCHANGED views
          ELSE IF base = <<>> \/ PlanView(base) \in views
          THEN \* lines 1133-1140
               /\ failing = "none"
               /\ tx' = RolledBack("Create Cropped Plan View")
               /\ err' = "Duplicate View Name"
               /\ pc' = "exited"
               /\ UNCHANGED views
          ELSE IF failing = "CropBox"
          THEN \* the renamed duplicate is pending; line 1149 is not reached
               /\ views' = views \cup {PlanView(base)}
               /\ tx' = Started("Create Cropped Plan View")
               /\ err' = "HostError"
               /\ pc' = "raised"
          ELSE /\ views' = views \cup {PlanView(base)}
               /\ tx' = Committed("Create Cropped Plan View")
               /\ pc' = "picker"
               /\ UNCHANGED err
    /\ UNCHANGED <<dataGrid, txtTextNoteCode, textNotePlaced, elems, next_id, notes, sheets,
                   result>>
    /\ UNCHANGED <<polyVars, insideVars, fillVars, gathered_elements, note_type>>

\* lines 1156-1205: the title-block picker; has_tbs: the document has a
\* title-block type, picked: the user chose one and pressed OK
PickerStep(has_tbs, picked) ==
    /\ pc = "picker"
    /\ picked => has_tbs
    /\ event' = Ran("TBPicker", 0)
    /\ IF picked
       THEN pc' = "sheet" /\ UNCHANGED err
       ELSE pc' = "exited" /\ err' = "SystemExit"
    /\ UNCHANGED <<dataGrid, txtTextNoteCode, textNotePlaced, docVars, result, tx>>
    /\ UNCHANGED <<polyVars, insideVars, fillVars, gathered_elements, note_type>>

\* "sep".join(parts)
RECURSIVE Join(_, _)
Join(parts, sep) ==
    IF parts = <<>> THEN <<>>
    ELSE IF Len(parts) = 1 THEN parts[1]
    ELSE parts[1] \o sep \o Join(Tail(parts), sep)

\* s.startswith(prefix)
StartsWith(s, prefix) == Len(s) >= Len(prefix) /\ SubSeq(s, 1, Len(prefix)) = prefix

SheetInfix == <<" ", "-", " ", "S", "h", "e", "e", "t">>
PrefabPrefix == <<"P", "r", "e", "f", "a", "b", " ">>

\* A plausible slip: the base code compared with the sheets' names.
SheetNames(shs) == {sh.Name : sh \in shs}

\* lines 1196-1197: existing_numbers
SheetNumbers(shs) == {sh.SheetNumber : sh \in shs}

\* lines 1212-1281: "Create 3D callout"; failing: the host call that throws
\* ("ViewSheet": line 1222, "View3D": lines 1249-1279).  The document has a
\* three-dimensional view family type (line 1239).
SheetStep(failing) ==
    /\ pc = "sheet"
    /\ failing \in {"none", "ViewSheet", "View3D"}
    /\ event' = Ran("Create3DCallout", 0)
    /\ LET base == BaseOf(result.TextNote)
           existing_numbers == SheetNumbers(sheets)
           prefix == base \o SheetInfix
           existing_count == Cardinality({v \in views :
                                 v.ViewType = "ThreeD" /\ StartsWith(v.Name, prefix)})
           parts == Split(base)
           major == Join(SubSeq(parts, 1, Len(parts) - 1), Dot)
           last == int(parts[Len(parts)])
           view3d == View3D(base \o SheetInfix \o <<" ">> \o major \o Dot
                            \o Str(last.val + existing_count))
           plan_sheet == Sheet(base, PrefabPrefix \o base, {PlanView(base)})
       IN IF base \in existing_numbers
          THEN \* lines 1213-1219, before t3.Start()
               /\ failing = "none"
               /\ pc' = "exited"
               /\ err' = "Duplicate sheet number"
               /\ UNCHANGED <<views, sheets, tx>>
          ELSE IF failing = "ViewSheet"
          THEN /\ tx' = Started("Create 3D callout")
               /\ err' = "HostError"
               /\ pc' = "raised"
               /\ UNCHANGED <<views, sheets>>
          ELSE IF ~last.some
          THEN \* line 1244: int raises ValueError; the sheet is pending
               /\ failing = "none"
               /\ sheets' = sheets \cup {plan_sheet}
               /\ tx' = Started("Create 3D callout")
               /\ err' = "ValueError"
               /\ pc' = "raised"
               /\ UNCHANGED views
          ELSE IF failing = "View3D" \/ view3d \in views
          THEN \* a host call of lines 1249-1279 throws; line 1281 is not reached
               /\ sheets' = sheets \cup {plan_sheet}
               /\ tx' = Started("Create 3D callout")
               /\ err' = "HostError"
               /\ pc' = "raised"
               /\ UNCHANGED views
          ELSE /\ views' = views \cup {view3d}
               /\ sheets' = sheets \cup
                     {Sheet(base, PrefabPrefix \o base, {PlanView(base), view3d})}
               /\ tx' = Committed("Create 3D callout")
               /\ pc' = "done"
               /\ UNCHANGED err
    /\ UNCHANGED <<dataGrid, txtTextNoteCode, textNotePlaced, elems, next_id, notes, result>>
    /\ UNCHANGED <<polyVars, insideVars, fillVars, gathered_elements, note_type>>

Next ==
    \/ \E i \in 1..Len(dataGrid), code \in TypedCodes : EditNewCode(i, code)
    \/ \E typed \in TypedTexts : TypeText(typed)
    \/ \E ok \in BOOLEAN : PlaceTextNoteClick(ok)
    \/ \E i \in 1..Len(dataGrid), bb \in BOOLEAN, ok \in BOOLEAN : AddTagClick(i, bb, ok)
    \/ \E i \in 1..Len(dataGrid) : RemoveTagClick(i)
    \/ \E i \in 1..Len(dataGrid), ok \in BOOLEAN : RemoveTagRowClick(i, ok)
    \/ OKClick
    \/ CancelClick
    \/ RenumberStep
    \/ \E failing \in 0..Len(result.Elements) : UpdateCommentsStep(failing)
    \/ \E ok \in BOOLEAN : TextNoteStep(ok)
    \/ \E floor_plan \in BOOLEAN, failing \in {"none", "Duplicate", "CropBox"} :
           CroppedViewStep(floor_plan, failing)
    \/ \E has_tbs \in BOOLEAN, picked \in BOOLEAN : PickerStep(has_tbs, picked)
    \/ \E failing \in {"none", "ViewSheet", "View3D"} : SheetStep(failing)

Init == FlowInit /\ PolyIdle /\ InsideIdle /\ FillIdle

Spec == Init /\ [][Next]_vars

(***************************************************************************)
(* SpecGather: the script from the pick to the editor (lines 1036-1046).   *)
(* The user picks detail lines between the corners of the square; the      *)
(* view shows some of: a pipe (id 1) centered at (0.5, 1), a wall (id 2)   *)
(* centered at (1.5, 1), and a pipe (id 3) with no bounding box in the     *)
(* view, and a pipe fitting (id 4) centered at (1, 0.5) whose family name  *)
(* has the marker or not, possibly with a pipe tag (id 5) hosted on it     *)
(* that lies outside the square.  The centers lie on no line through two   *)
(* corners.                                                                *)
(***************************************************************************)
ViewElements == {1, 2, 3, 4, 5}

ViewDocument(present, name) ==
    [id \in present |->
        IF id = 2 THEN Element("Walls", 0, <<>>)
        ELSE IF id = 4 THEN Fitting(name)
        ELSE IF id = 5 THEN Element("Pipe Tags", 4, <<>>)
        ELSE Element("Pipes", 0, OldCode)]

\* lines 209-215: the center of the element's bounding box, None without a box
view_center(id) ==
    IF id = 1 THEN Some(RPoint(1, 2, 2))
    ELSE IF id = 2 THEN Some(RPoint(3, 2, 2))
    ELSE IF id = 4 THEN Some(RPoint(2, 1, 2))
    ELSE IF id = 5 THEN Some(RPoint(5, 1, 2))
    ELSE None

\* lines 207-217: the elements of the collector, in id order, whose center is inside
RECURSIVE ElementsInside(_, _)
ElementsInside(collector, poly) ==
    IF collector = <<>> THEN <<>>
    ELSE (IF /\ view_center(Head(collector)).some
             /\ is_point_inside_polygon(view_center(Head(collector)).val, poly)
          THEN <<Head(collector)>>
          ELSE <<>>) \o ElementsInside(Tail(collector), poly)

GatherInit ==
    \E present \in SUBSET ViewElements, name \in FittingNames :
        /\ 5 \in present => 4 \in present
        /\ gpc = "picking" /\ segments = <<>> /\ polygon = None
        /\ elems = ViewDocument(present, name)
        /\ gathered_elements = <<>>
        /\ pc = "gathering" /\ event = NoEvent /\ dataGrid = <<>>
        /\ txtTextNoteCode = <<>> /\ textNotePlaced = FALSE
        /\ next_id = 4 /\ notes = <<>> /\ views = ExistingViews
        /\ note_type = TRUE
        /\ sheets = ExistingSheets /\ result = NoResult
        /\ tx = NoTransaction /\ err = "none"

\* lines 181-225 and 1036-1039: select_boundary_and_gather after the pick,
\* and the exit when it returns None or an empty list
GatherStep ==
    /\ pc = "gathering"
    /\ gpc = "picking"
    /\ gpc' = "assembled"
    /\ event' = Ran("select_boundary_and_gather", 0)
    /\ polygon' = IF segments = <<>> THEN None ELSE order_segments_to_polygon(segments)
    /\ gathered_elements' = IF polygon'.some
                            THEN ElementsInside(SortedIds(DOMAIN elems), polygon'.val)
                            ELSE <<>>
    /\ IF gathered_elements' = <<>>
       THEN pc' = "exited" /\ err' = "Operation cancelled by the user."
       ELSE pc' = "filtering" /\ UNCHANGED err
    /\ UNCHANGED <<segments, dataGrid, txtTextNoteCode, textNotePlaced, docVars, result, tx>>
    /\ UNCHANGED <<insideVars, fillVars>>

\* lines 1041-1046: filter_relevant_elements, the exit on an empty list, and
\* the editor opened on the filtered elements
FilterStep ==
    /\ pc = "filtering"
    /\ event' = Ran("filter_relevant_elements", 0)
    /\ LET filtered_elements == filter_relevant_elements(elems, gathered_elements)
       IN IF Len(filtered_elements) = 0
          THEN /\ pc' = "exited"
               /\ err' = "Operation cancelled by the user."
               /\ UNCHANGED dataGrid
          ELSE /\ pc' = "editor"
               /\ dataGrid' = Populate(filtered_elements)
               /\ UNCHANGED err
    /\ UNCHANGED <<txtTextNoteCode, textNotePlaced, docVars, result, tx>>
    /\ UNCHANGED <<polyVars, insideVars, fillVars, gathered_elements, note_type>>

GatherNext ==
    \/ \E line \in DetailLines : PickLine(line)
    \/ GatherStep
    \/ FilterStep

InitGather == GatherInit /\ InsideIdle /\ FillIdle

SpecGather == InitGather /\ [][GatherNext]_vars

(***************************************************************************)
(* C1.  In every run of the workflow every transaction that is started is  *)
(* later committed or rolled back: no transaction is still open when a     *)
(* handler returns or raises or when the script ends or aborts, also when  *)
(* a host call inside the transaction fails.  Each action is a whole       *)
(* handler or step, so every state is such a moment.                       *)
(***************************************************************************)
C1_NoTransactionLeftOpen == tx.state # "started"

(***************************************************************************)
(* C2.  Whenever a host call fails inside one of the Document Mutator      *)
(* transactions (Update Comments, Place Text Note at Region Corner, Create *)
(* Cropped Plan View, Create 3D callout), that transaction is rolled back  *)
(* and the step leaves the document as it found it.                        *)
(***************************************************************************)
MutatorSteps == {"comments", "textnote", "view", "sheet"}
HostFailures == {"HostError", "Duplicate View Name"}

C2_FailedStepRolledBack ==
    [][(pc \in MutatorSteps /\ err' \in HostFailures)
          => (tx'.state = "rolledback" /\ docVars' = docVars)]_vars

(***************************************************************************)
(* C3.  Clicking the tag button of a Pipes or Pipe Fittings row that shows *)
(* "Remove Tag", when a pipe tag hosted on that element exists in the      *)
(* document, deletes that tag in a committed transaction, changes the      *)
(* row's button back to "Add/Place Tag", and removes that tag's Pipe Tags  *)
(* row from the grid.                                                      *)
(***************************************************************************)
HostRowShows(i, button) ==
    /\ dataGrid[i].Category \in HostCategories
    /\ dataGrid[i].TagStatus = button

C3_RemoveTagDeletesTag ==
    [][\A i \in 1..Len(dataGrid) :
          (/\ pc = "editor"
           /\ event' = Ran("RemoveTag", i)
           /\ HostRowShows(i, "Remove Tag")
           /\ TagsOn(elems, dataGrid[i].Id) # {})
          => \E t \in TagsOn(elems, dataGrid[i].Id) :
                /\ t \notin DOMAIN elems'
                /\ tx' = Committed("Remove Tag")
                /\ \E k \in 1..Len(dataGrid') :
                      /\ dataGrid'[k].Id = dataGrid[i].Id
                      /\ dataGrid'[k].Category = dataGrid[i].Category
                      /\ dataGrid'[k].TagStatus = "Add/Place Tag"
                /\ \A k \in 1..Len(dataGrid') :
                      ~(dataGrid'[k].Category = "Pipe Tags" /\ dataGrid'[k].Id = t)]_vars

(***************************************************************************)
(* C4.  Clicking the tag button of a Pipes or Pipe Fittings row that shows *)
(* "Add/Place Tag" creates exactly one tag hosted on that element in one   *)
(* committed transaction, changes that row's button to "Remove Tag", and   *)
(* appends exactly one Pipe Tags row whose Id is the new tag's id and      *)
(* whose NewCode equals the host row's NewCode; this for every such row,   *)
(* also when the element has no bounding box in the active view.  (Clicks  *)
(* during which the host's tag creation throws are left to C1.)            *)
(***************************************************************************)
C4_AddTagCreatesTagAndRow ==
    [][\A i \in 1..Len(dataGrid) :
          (/\ pc = "editor"
           /\ event' = Ran("AddTag", i)
           /\ HostRowShows(i, "Add/Place Tag")
           /\ err' # "HostError")
          => LET created == DOMAIN elems' \ DOMAIN elems
             IN /\ Cardinality(created) = 1
                /\ \A t \in created : elems'[t].Category = "Pipe Tags"
                                      /\ elems'[t].host = dataGrid[i].Id
                /\ tx' = Committed("Add Tag")
                /\ dataGrid'[i].TagStatus = "Remove Tag"
                /\ Len(dataGrid') = Len(dataGrid) + 1
                /\ dataGrid'[Len(dataGrid')].Category = "Pipe Tags"
                /\ dataGrid'[Len(dataGrid')].Id \in created
                /\ dataGrid'[Len(dataGrid')].NewCode = dataGrid[i].NewCode]_vars

(***************************************************************************)
(* C11.  After the "Update Comments" transaction commits, every grid row's *)
(* element that has a writable Comments parameter holds as Comments        *)
(* exactly the NewCode that its row showed in the editor when OK was       *)
(* pressed, for rows of every category.                                    *)
(***************************************************************************)
UpdateCommentsCommitted == tx = Committed("Update Comments")

LastRowOf(r) == \A k \in (r + 1)..Len(dataGrid) : dataGrid[k].Id # dataGrid[r].Id

PipeRank(r) ==
    1 + Cardinality({k \in 1..Len(dataGrid) :
            /\ dataGrid[k].Category = "Pipes"
            /\ \/ KeyLess(bbox_center[dataGrid[k].Id], bbox_center[dataGrid[r].Id])
               \/ (bbox_center[dataGrid[k].Id] = bbox_center[dataGrid[r].Id] /\ k < r)})

FinalBase == IF re_search(result.TextNote).some
             THEN re_search(result.TextNote).val ELSE <<"0">>

FinalCode(r) ==
    IF result.TextNotePlaced THEN dataGrid[r].NewCode
    ELSE IF dataGrid[r].Category = "Pipes" THEN FinalBase \o Dot \o Str(PipeRank(r))
    ELSE IF dataGrid[r].Category = "Pipe Fittings" THEN FinalBase
    ELSE dataGrid[r].NewCode

BaseNamesExistingView == PlanView(BaseOf(result.TextNote)) \in views

C12_DuplicateViewNameRollsBack ==
    [][/\ (/\ pc = "view"
           /\ event' = Ran("CreateCroppedPlanView", 0)
           /\ BaseNamesExistingView
           /\ err' \notin {"SystemExit", "HostError"})
          => (/\ err' = "Duplicate View Name"
              /\ tx'.name = "Create Cropped Plan View"
              /\ tx'.state = "rolledback"
              /\ pc' = "exited"
              /\ docVars' = docVars)
       /\ err = "Duplicate View Name" => (pc' = pc /\ docVars' = docVars)]_vars

C12_Witness ==
    /\ err = "Duplicate View Name"
    /\ BaseNamesExistingView
    /\ tx.state = "rolledback"
    /\ views = ExistingViews

(***************************************************************************)
(* C13.  The workflow never creates a sheet whose number is that of a      *)
(* sheet already in the document: when the base code is an existing sheet  *)
(* number the sheet step ends the script without starting the "Create 3D   *)
(* callout" transaction, and the sheets' numbers stay pairwise distinct.   *)
(***************************************************************************)
BaseIsExistingSheetNumber ==
    \E sh \in ExistingSheets : sh.SheetNumber = BaseOf(result.TextNote)

C13_SheetNumbersDistinct ==
    /\ \A s1 \in sheets, s2 \in sheets : s1.SheetNumber = s2.SheetNumber => s1 = s2
    /\ (event = Ran("Create3DCallout", 0) /\ BaseIsExistingSheetNumber)
          => (/\ err = "Duplicate sheet number"
              /\ pc = "exited"
              /\ tx.name # "Create 3D callout"
              /\ sheets = ExistingSheets)

C13_Witness ==
    /\ event = Ran("Create3DCallout", 0)
    /\ BaseIsExistingSheetNumber
    /\ err = "Duplicate sheet number"

(***************************************************************************)
(* C14.  When the script ends at a view or sheet step without an error of  *)
(* the host (active view not a floor plan, duplicate view name, no         *)
(* title-block type, picker cancelled, duplicate sheet number), the        *)
(* Comments written by "Update Comments" and the text note of the earlier  *)
(* steps are still in the document; when it ends at the picker or at the   *)
(* sheet step, the committed cropped view is still there too.              *)
(***************************************************************************)
LateSteps == {"CreateCroppedPlanView", "TBPicker", "Create3DCallout"}

LastEntryOf(r) ==
    \A k \in (r + 1)..Len(result.Elements) : result.Elements[k].Id # result.Elements[r].Id

C14_EarlierStepsRemain ==
    (pc = "exited" /\ event.handler \in LateSteps) =>
        /\ \A r \in 1..Len(result.Elements) :
              (result.Elements[r].Id \in DOMAIN elems /\ LastEntryOf(r))
                 => elems[result.Elements[r].Id].Comments = result.Elements[r].NewCode
        /\ note_type => notes # <<>>
        /\ (note_type /\ ~result.TextNotePlaced)
              => notes[Len(notes)].Text = result.TextNote
        /\ event.handler \in {"TBPicker", "Create3DCallout"}
              => PlanView(BaseOf(result.TextNote)) \in views

C14_Witness ==
    /\ pc = "exited"
    /\ err = "Duplicate sheet number"
    /\ elems[1].Comments = <<"7", ".", "1">>
    /\ Len(notes) = 1 /\ notes[1].Text = <<"N", "7">>
    /\ PlanView(<<"7">>) \in views

(***************************************************************************)
(* C5.  order_segments_to_polygon returns no polygon whenever the input is *)
(* empty, or the chain's final point does not coincide with its start      *)
(* within the tolerance, or at least one input segment is still unconsumed *)
(* when chaining stops (a closed loop with an extra unconnected or         *)
(* branching segment yields no polygon).                                   *)
(***************************************************************************)
ChainOf(segs) == Chain(<<segs[1][1], segs[1][2]>>, Tail(segs)).polygon

ChainCloses(segs) ==
    segs # <<>> /\ points_are_close(ChainOf(segs)[1], ChainOf(segs)[Len(ChainOf(segs))])

C5_NoPolygonForOpenOrLeftover ==
    gpc = "assembled" =>
        ((\/ segments = <<>>
          \/ ~ChainCloses(segments)
          \/ Unconsumed(segments) # <<>>) => polygon = None)

(***************************************************************************)
(* C6.  order_segments_to_polygon is order-independent: for every segment  *)
(* list and every permutation of it, both calls return no polygon or both  *)
(* return the same closed loop, up to rotation of the start index and      *)
(* reversal of direction.                                                  *)
(***************************************************************************)
Rotate(s, k) == [i \in 1..Len(s) |-> s[((i + k - 1) % Len(s)) + 1]]
Reverse(s) == [i \in 1..Len(s) |-> s[Len(s) + 1 - i]]

SameLoop(p, q) ==
    /\ Len(p) = Len(q)
    /\ \E k \in 0..(Len(p) - 1) : q = Rotate(p, k) \/ q = Rotate(Reverse(p), k)

SameResult(r1, r2) ==
    \/ ~r1.some /\ ~r2.some
    \/ r1.some /\ r2.some /\ SameLoop(r1.val, r2.val)

Permuted(s) == {[i \in 1..Len(s) |-> s[f[i]]] : f \in Permutations(1..Len(s))}

C6_OrderIndependent ==
    gpc = "assembled" =>
        \A p \in Permuted(segments) :
            SameResult(polygon, order_segments_to_polygon(p))

(***************************************************************************)
(* C7.  is_point_inside_polygon returns the same answer for a given point  *)
(* when the polygon's vertex list is rotated to start at any other index   *)
(* and when the vertex list is reversed.                                   *)
(***************************************************************************)
C7_RotationReversalInvariant ==
    ipc = "gathered" =>
        \A c \in Centers(ipoly) :
            /\ \A k \in 0..(Len(ipoly) - 1) :
                   is_point_inside_polygon(c, Rotate(ipoly, k)) = (c \in elements_inside)
            /\ is_point_inside_polygon(c, Reverse(ipoly)) = (c \in elements_inside)

\* A quadrilateral that is not its own rotation, with centers on both sides.
C7_Witness ==
    /\ ipc = "gathered"
    /\ Len(ipoly) = 4
    /\ Rotate(ipoly, 1) # ipoly
    /\ Reverse(ipoly) # ipoly
    /\ elements_inside # {}
    /\ Centers(ipoly) \ elements_inside # {}

(***************************************************************************)
(* C8.  For every polygon, is_point_inside_polygon returns false for every *)
(* point strictly outside the polygon's convex hull; for every convex      *)
(* polygon it returns true for the polygon's centroid (the mean of the     *)
(* vertices and the centroid of the area alike).  For the unit square,     *)
(* (0.5, 0.5) is inside and (2, 2) is outside.                             *)
(***************************************************************************)
\* (v - p) x (w - p) and (v - p) . (w - p), both scaled by p.D^2
CrossAt(p, v, w) ==
    (v.X * p.D - p.X) * (w.Y * p.D - p.Y) - (v.Y * p.D - p.Y) * (w.X * p.D - p.X)
DotAt(p, v, w) ==
    (v.X * p.D - p.X) * (w.X * p.D - p.X) + (v.Y * p.D - p.Y) * (w.Y * p.D - p.Y)

\* p is strictly outside the convex hull of the vertices: a tangent from p
\* through a vertex v has every vertex on its left or ahead of p on it.
StrictlyOutsideHull(p, poly) ==
    \E i \in 1..Len(poly) :
        \A k \in 1..Len(poly) :
            /\ CrossAt(p, poly[i], poly[k]) >= 0
            /\ CrossAt(p, poly[i], poly[k]) = 0 => DotAt(p, poly[i], poly[k]) > 0

\* A convex polygon: at least three distinct vertices enclosing an area, every
\* vertex on the inner side of (or on) every edge's line.
IsConvex(poly) ==
    /\ Len(poly) >= 3
    /\ \A i, k \in 1..Len(poly) : i # k => poly[i] # poly[k]
    /\ Area2(poly) # 0
    /\ \A i, k \in 1..Len(poly) :
           LET a == poly[i]
               b == poly[NextIdx(poly, i)]
               w == poly[k]
               cr == (b.X - a.X) * (w.Y - a.Y) - (b.Y - a.Y) * (w.X - a.X)
           IN IF Area2(poly) > 0 THEN cr >= 0 ELSE cr <= 0

C8_OutsideHullAndCentroid ==
    ipc = "gathered" =>
        /\ \A c \in Centers(ipoly) :
               StrictlyOutsideHull(c, ipoly) => c \notin elements_inside
        /\ IsConvex(ipoly) =>
               /\ VertexCentroid(ipoly) \in elements_inside
               /\ AreaCentroid(ipoly) \in elements_inside

UnitSquare == <<XYZ(0, 0, 0), XYZ(1, 0, 0), XYZ(1, 1, 0), XYZ(0, 1, 0)>>

C8_Witness ==
    /\ ipc = "gathered"
    /\ ipoly = UnitSquare
    /\ IsConvex(ipoly)
    /\ RPoint(1, 1, 2) \in elements_inside
    /\ StrictlyOutsideHull(RPoint(4, 4, 2), ipoly)
    /\ RPoint(4, 4, 2) \notin elements_inside

(***************************************************************************)
(* C9.  In autoFillPipeTagCodes with two fitting rows: centers closer to   *)
(* each other than the tolerance 0.01 land in one cluster and get the same *)
(* NewCode; centers farther apart than the tolerance land in separate      *)
(* clusters and get different NewCodes.                                    *)
(***************************************************************************)
\* The editor shows the rows as the last auto-fill click left them.
AutoFillDone == fpc = "editor" /\ ParseBase(ftext).some

FitRows == RowsOf(frows, "Pipe Fittings", 1)
FitClusters == MakeClusters(CentersOf(frows, FitRows, fbbox))
InOneCluster(r1, r2) ==
    \E c \in 1..Len(FitClusters) :
        /\ \E k \in 1..Len(FitClusters[c]) : FitClusters[c][k].idx = r1
        /\ \E k \in 1..Len(FitClusters[c]) : FitClusters[c][k].idx = r2

CenterOfRow(r) == fbbox[frows[r].Id]
Dist2(a, b) == (a.X - b.X) * (a.X - b.X) + (a.Y - b.Y) * (a.Y - b.Y)
NearOnBothAxes(a, b) == Abs(a.X - b.X) < cluster_tol /\ Abs(a.Y - b.Y) < cluster_tol

\* The claim as stated, the tolerance read as a distance between the centers.
C9_ClusterByDistance ==
    (AutoFillDone /\ Len(FitRows) = 2) =>
        LET a == FitRows[1]
            b == FitRows[2]
            d2 == Dist2(CenterOfRow(a), CenterOfRow(b))
        IN /\ d2 < cluster_tol * cluster_tol =>
                  InOneCluster(a, b) /\ frows[a].NewCode = frows[b].NewCode
           /\ d2 > cluster_tol * cluster_tol =>
                  ~InOneCluster(a, b) /\ frows[a].NewCode # frows[b].NewCode

\* C9 as amended: two fitting rows land in one cluster and get the same
\* NewCode when their centers differ by less than 0.01 along X and along Y, and
\* land in separate clusters with different NewCodes when they differ by 0.01
\* or more along X or along Y.
C9_ClusterByAxes ==
    (AutoFillDone /\ Len(FitRows) = 2) =>
        LET a == FitRows[1]
            b == FitRows[2]
        IN IF NearOnBothAxes(CenterOfRow(a), CenterOfRow(b))
           THEN InOneCluster(a, b) /\ frows[a].NewCode = frows[b].NewCode
           ELSE ~InOneCluster(a, b) /\ frows[a].NewCode # frows[b].NewCode

\* Two fittings farther apart than the tolerance, nearer than it along each
\* axis, numbered alike.
C9_Witness ==
    /\ AutoFillDone
    /\ Len(FitRows) = 2
    /\ Dist2(CenterOfRow(FitRows[1]), CenterOfRow(FitRows[2])) > cluster_tol * cluster_tol
    /\ NearOnBothAxes(CenterOfRow(FitRows[1]), CenterOfRow(FitRows[2]))
    /\ frows[FitRows[1]].NewCode = frows[FitRows[2]].NewCode
    /\ frows[FitRows[1]].NewCode # OldCode

(***************************************************************************)
(* C10.  For N Pipes rows whose centers have pairwise distinct (X, Y),     *)
(* auto-fill and the post-dialog renumbering assign each pipe the code     *)
(* base.k, the suffixes k being exactly 1..N without gap or repeat and     *)
(* increasing with the lexicographic (X, Y) order of the centers: k is one *)
(* more than the number of pipes whose center comes before.                *)
(***************************************************************************)
PipeRows == RowsOf(frows, "Pipes", 1)
PipeRowSet == {PipeRows[k] : k \in 1..Len(PipeRows)}

DistinctPipeCenters ==
    \A r1, r2 \in PipeRowSet :
        r1 # r2 => ~(CenterOfRow(r1).X = CenterOfRow(r2).X
                     /\ CenterOfRow(r1).Y = CenterOfRow(r2).Y)

PipesBefore(r) == {q \in PipeRowSet : KeyLess(CenterOfRow(q), CenterOfRow(r))}

PipesNumbered(base) ==
    \A r \in PipeRowSet :
        frows[r].NewCode = base \o Dot \o Str(Cardinality(PipesBefore(r)) + 1)

RenumberBase == IF re_search(Strip(ftext)).some THEN re_search(Strip(ftext)).val
                ELSE <<"0">>

C10_PipesNumberedInOrder ==
    DistinctPipeCenters =>
        /\ AutoFillDone => PipesNumbered(ParseBase(ftext).val.base)
        /\ fpc = "renumbered" => PipesNumbered(RenumberBase)

\* Three pipes whose row order is not their (X, Y) order, renumbered.
C10_Witness ==
    /\ fpc = "renumbered"
    /\ Len(PipeRows) = 3
    /\ DistinctPipeCenters
    /\ KeyLess(CenterOfRow(PipeRows[3]), CenterOfRow(PipeRows[1]))
    /\ frows[PipeRows[3]].NewCode = RenumberBase \o Dot \o <<"1">>
    /\ frows[PipeRows[1]].NewCode = RenumberBase \o Dot \o <<"3">>

(***************************************************************************)
(* C15.  If the picked lines do not form a closed boundary (they cannot    *)
(* all be chained into one closed loop), or no element's bounding-box      *)
(* center lies inside the boundary, or none of the contained elements      *)
(* belongs to the four categories, the script ends before the editor       *)
(* without having started a transaction, the document unchanged.           *)
(***************************************************************************)
FormClosedBoundary(segs) ==
    segs # <<>> /\ ChainCloses(segs) /\ Unconsumed(segs) = <<>>

ContainedIn(poly) == ElementsInside(SortedIds(DOMAIN elems), poly)

NoneInside == polygon.some /\ ContainedIn(polygon.val) = <<>>

NoneRelevant ==
    /\ polygon.some
    /\ \A k \in 1..Len(ContainedIn(polygon.val)) :
          elems[ContainedIn(polygon.val)[k]].Category \notin Categories

EndedUntouched ==
    /\ pc = "exited"
    /\ tx = NoTransaction
    /\ \E name \in FittingNames : elems = ViewDocument(DOMAIN elems, name)
    /\ notes = <<>> /\ views = ExistingViews /\ sheets = ExistingSheets

C15_AbortsWithoutTransaction ==
    (/\ gpc = "assembled"
     /\ pc # "filtering"
     /\ ~FormClosedBoundary(segments) \/ NoneInside \/ NoneRelevant)
        => EndedUntouched

(***************************************************************************)
(* C16.  When the document has a text-note type, the final text-note step  *)
(* creates one text note, located at the minimum corner of the bounding    *)
(* box of the region's elements, exactly when the editor's "Place Text     *)
(* Note" button placed none; when the editor placed a note (or there is no *)
(* text-note type) the step creates nothing.                               *)
(***************************************************************************)
RegionElements == {gathered_elements[k] : k \in 1..Len(gathered_elements)} \cap DOMAIN elems

IsMinCorner(c) ==
    /\ \A el \in RegionElements :
          /\ c.X <= BoundingBox[el].Min.X
          /\ c.Y <= BoundingBox[el].Min.Y
          /\ c.Z <= BoundingBox[el].Min.Z
    /\ \E el \in RegionElements : c.X = BoundingBox[el].Min.X
    /\ \E el \in RegionElements : c.Y = BoundingBox[el].Min.Y
    /\ \E el \in RegionElements : c.Z = BoundingBox[el].Min.Z

FinalNoteStepRan ==
    pc = "textnote" /\ pc' = "view" /\ event'.handler = "PlaceTextNoteAtRegionCorner"

C16_FinalNoteIffNonePlaced ==
    [][FinalNoteStepRan =>
          IF notes = <<>> /\ note_type
          THEN /\ Len(notes') = 1
               /\ IsMinCorner(notes'[1].Corner)
               /\ notes'[1].Text = result.TextNote
          ELSE notes' = notes]_vars

C16_Witness ==
    /\ pc = "view"
    /\ event.handler = "PlaceTextNoteAtRegionCorner"
    /\ ~result.TextNotePlaced
    /\ DOMAIN elems = {1, 2}
    /\ gathered_elements = <<1, 2, 3>>
    /\ notes = <<[Corner |-> XYZ(-1, -1, 0), Text |-> <<"5", ".", "1">>]>>

(***************************************************************************)
(* C17.  When the editor opens, a Pipe Fittings row shows the              *)
(* "Add/Place Tag" button only if the fitting's name contains "DN".        *)
(***************************************************************************)
HasMarker(id) == \E i \in 1..(Len(elems[id].Name) - 1) :
                    elems[id].Name[i] = "D" /\ elems[id].Name[i + 1] = "N"

C17_AddTagOnlyForMarkedFittings ==
    pc = "editor" =>
        \A r \in 1..Len(dataGrid) :
            (dataGrid[r].Category = "Pipe Fittings" /\ dataGrid[r].TagStatus = "Add/Place Tag")
                => HasMarker(dataGrid[r].Id)

(***************************************************************************)
(* C18.  A click on "Remove Tag" in a Pipe Tags row that the host does not *)
(* fail deletes the row's tag in a committed "Remove Pipe-Tag"             *)
(* transaction, removes that row, sets the button of the host's Pipes or   *)
(* Pipe Fittings row to "Add/Place Tag" and leaves every other row as it   *)
(* was.                                                                    *)
(***************************************************************************)
TagRowClicked(i) ==
    /\ pc = "editor"
    /\ event' = Ran("RemoveTagRow", i)
    /\ err' # "HostError"

RowAfterRemoval(old, tag_id) ==
    IF /\ tag_id \in DOMAIN elems
       /\ old.Category \in HostCategories
       /\ old.Id = elems[tag_id].host
    THEN [old EXCEPT !.TagStatus = "Add/Place Tag"]
    ELSE old

C18_RemoveTagRowDeletesTag ==
    [][\A i \in 1..Len(dataGrid) :
          TagRowClicked(i) =>
              /\ elems' = [id \in DOMAIN elems \ {dataGrid[i].Id} |-> elems[id]]
              /\ tx' = Committed("Remove Pipe-Tag")
              /\ Len(dataGrid') = Len(dataGrid) - 1
              /\ \A k \in 1..Len(dataGrid') :
                    dataGrid'[k] = RowAfterRemoval(dataGrid[IF k < i THEN k ELSE k + 1],
                                                  dataGrid[i].Id)]_vars

(***************************************************************************)
(* C19.  When the picked segments form one simple closed loop (every end   *)
(* point is shared by exactly two of them, and they hang together), in     *)
(* whatever order and orientation, order_segments_to_polygon returns a     *)
(* polygon with as many points as there are segments whose cyclically      *)
(* consecutive point pairs are the input segments, each used once.         *)
(***************************************************************************)
EndPoints(segs) == UNION {{segs[i][1], segs[i][2]} : i \in 1..Len(segs)}

SegmentsAt(v, segs) == {i \in 1..Len(segs) : v \in {segs[i][1], segs[i][2]}}

RECURSIVE ConnectedTo(_, _)
ConnectedTo(reached, segs) ==
    LET more == reached \cup
                  {v \in EndPoints(segs) :
                      \E i \in 1..Len(segs) :
                          v \in {segs[i][1], segs[i][2]}
                          /\ {segs[i][1], segs[i][2]} \cap reached # {}}
    IN IF more = reached THEN reached ELSE ConnectedTo(more, segs)

SimpleClosedLoop(segs) ==
    /\ segs # <<>>
    /\ \A i \in 1..Len(segs) : segs[i][1] # segs[i][2]
    /\ \A v \in EndPoints(segs) : Cardinality(SegmentsAt(v, segs)) = 2
    /\ ConnectedTo({segs[1][1]}, segs) = EndPoints(segs)

CyclicPairs(poly) ==
    [k \in 1..Len(poly) |-> <<poly[k], poly[IF k = Len(poly) THEN 1 ELSE k + 1]>>]

TimesIn(edge, pairs) ==
    Cardinality({i \in 1..Len(pairs) : {pairs[i][1], pairs[i][2]} = edge})

SameEdges(a, b) ==
    /\ Len(a) = Len(b)
    /\ \A i \in 1..Len(a) :
          TimesIn({a[i][1], a[i][2]}, a) = TimesIn({a[i][1], a[i][2]}, b)

C19_SimpleLoopAssembled ==
    (gpc = "assembled" /\ SimpleClosedLoop(segments)) =>
        /\ polygon.some
        /\ Len(polygon.val) = Len(segments)
        /\ SameEdges(CyclicPairs(polygon.val), segments)

C19_Witness ==
    /\ gpc = "assembled"
    /\ segments = << <<XYZ(0, 0, 0), XYZ(2, 0, 0)>>, <<XYZ(2, 2, 0), XYZ(0, 2, 0)>>,
                     <<XYZ(2, 2, 0), XYZ(2, 0, 0)>>, <<XYZ(0, 2, 0), XYZ(0, 0, 0)>> >>
    /\ SimpleClosedLoop(segments)
    /\ polygon = Some(<<XYZ(0, 0, 0), XYZ(2, 0, 0), XYZ(2, 2, 0), XYZ(0, 2, 0)>>)

(***************************************************************************)
(* C20.  Every polygon order_segments_to_polygon returns has at least      *)
(* three points: degenerate input, such as two segments that cover the     *)
(* same edge back and forth, yields no polygon.                            *)
(***************************************************************************)
C20_PolygonHasThreePoints ==
    (gpc = "assembled" /\ polygon.some) => Len(polygon.val) >= 3

(***************************************************************************)
(* C21.  Auto-fill takes as base code the first run of digits and dots of  *)
(* the entered text.  When the base has at least three dotted components,  *)
(* the prefix is its first two components and the seed its third           *)
(* component (0 when that component is empty); otherwise the prefix is the *)
(* whole base and the seed is 0.  The fitting gets prefix.seed, the pipe   *)
(* base.1.                                                                 *)
(*                                                                         *)
(* As first stated: the base is the last run, the prefix its first two     *)
(* components and the seed its last component.                             *)
(***************************************************************************)
IsRun(raw, i, j) ==
    /\ i <= j
    /\ \A k \in i..j : IsCodeChar(raw[k])
    /\ i = 1 \/ ~IsCodeChar(raw[i - 1])
    /\ j = Len(raw) \/ ~IsCodeChar(raw[j + 1])

RunsOf(raw) == {r \in (1..Len(raw)) \X (1..Len(raw)) : IsRun(raw, r[1], r[2])}

FirstRunOf(raw) ==
    LET r == CHOOSE q \in RunsOf(raw) : \A o \in RunsOf(raw) : q[1] <= o[1]
    IN SubSeq(raw, r[1], r[2])

LastRunOf(raw) ==
    LET r == CHOOSE q \in RunsOf(raw) : \A o \in RunsOf(raw) : q[1] >= o[1]
    IN SubSeq(raw, r[1], r[2])

DotsOf(base) == {k \in 1..Len(base) : base[k] = "."}

\* the position of the n-th dot; 0 before the first, Len + 1 after the last
DotAtRank(base, n) ==
    IF n = 0 THEN 0
    ELSE IF n > Cardinality(DotsOf(base)) THEN Len(base) + 1
    ELSE CHOOSE d \in DotsOf(base) : Cardinality({e \in DotsOf(base) : e < d}) = n - 1

Component(base, n) == SubSeq(base, DotAtRank(base, n - 1) + 1, DotAtRank(base, n) - 1)

ComponentCount(base) == Cardinality(DotsOf(base)) + 1

SeedOf(component) == IF component = <<>> THEN 0 ELSE DigitsValue(component)

FilledFrom(base, prefix, seed) ==
    /\ frows[1].NewCode = prefix \o Dot \o Str(seed)
    /\ frows[2].NewCode = base \o Dot \o <<"1">>

C21_LastRunLastComponent ==
    (fpc = "filled" /\ RunsOf(ftext) # {}) =>
        LET base == LastRunOf(ftext)
            n == ComponentCount(base)
        IN FilledFrom(base,
                      IF n >= 2 THEN Component(base, 1) \o Dot \o Component(base, 2) ELSE base,
                      SeedOf(Component(base, n)))

C21_FirstRunThirdComponent ==
    (fpc = "filled" /\ RunsOf(ftext) # {}) =>
        LET base == FirstRunOf(ftext)
            n == ComponentCount(base)
        IN FilledFrom(base,
                      IF n >= 3 THEN Component(base, 1) \o Dot \o Component(base, 2) ELSE base,
                      IF n >= 3 THEN SeedOf(Component(base, 3)) ELSE 0)

C21_Witness ==
    /\ fpc = "filled"
    /\ ftext = <<"1", ".", "2", ".", "2", " ", "1">>
    /\ frows[1].NewCode = <<"1", ".", "2", ".", "2">>
    /\ frows[2].NewCode = <<"1", ".", "2", ".", "2", ".", "1">>

(***************************************************************************)
(* C22.  After auto-fill, taking the fitting rows in row order, a fitting  *)
(* joins the first cluster whose first member is nearer than 0.01 along X  *)
(* and along Y, else it starts a cluster; the fittings of one cluster have *)
(* the same NewCode prefix.(seed+i), i the number of clusters whose first  *)
(* member comes before this cluster's in (X, Y) order; fittings of         *)
(* different clusters have different NewCodes.                             *)
(***************************************************************************)
FitRowSet == {FitRows[k] : k \in 1..Len(FitRows)}

\* r is the first member of a cluster: no earlier first member is near it
RECURSIVE StartsCluster(_)
StartsCluster(r) ==
    \A q \in FitRowSet :
        (q < r /\ StartsCluster(q)) => ~NearOnBothAxes(CenterOfRow(r), CenterOfRow(q))

ClusterStarts == {r \in FitRowSet : StartsCluster(r)}

\* the first member of the cluster r is in
FirstMemberOf(r) ==
    IF StartsCluster(r) THEN r
    ELSE CHOOSE q \in ClusterStarts :
            /\ q < r /\ NearOnBothAxes(CenterOfRow(r), CenterOfRow(q))
            /\ \A o \in ClusterStarts :
                  (o < r /\ NearOnBothAxes(CenterOfRow(r), CenterOfRow(o))) => q <= o

ClustersBefore(r) ==
    {q \in ClusterStarts : KeyLess(CenterOfRow(q), CenterOfRow(FirstMemberOf(r)))}

C22_FittingClustersNumbered ==
    AutoFillDone =>
        LET b == ParseBase(ftext).val
        IN /\ \A r \in FitRowSet :
                 frows[r].NewCode =
                     b.prefix \o Dot \o Str(b.base_n + Cardinality(ClustersBefore(r)))
           /\ \A r1, r2 \in FitRowSet :
                 (frows[r1].NewCode = frows[r2].NewCode)
                     <=> (FirstMemberOf(r1) = FirstMemberOf(r2))

\* Three fittings, the third near the first members of both clusters.
C22_Witness ==
    /\ AutoFillDone
    /\ ftext = <<"4", ".", "1", ".", "1">>
    /\ Len(FitRows) = 3
    /\ ClusterStarts = {1, 2}
    /\ NearOnBothAxes(CenterOfRow(3), CenterOfRow(1))
    /\ NearOnBothAxes(CenterOfRow(3), CenterOfRow(2))
    /\ frows[1].NewCode = <<"4", ".", "1", ".", "1">>
    /\ frows[2].NewCode = <<"4", ".", "1", ".", "2">>
    /\ frows[3].NewCode = <<"4", ".", "1", ".", "1">>

(***************************************************************************)
(* C23.  After auto-fill with P Pipes rows and T Pipe Tags rows, the i-th  *)
(* Pipe Tags row in row order has NewCode base.i for i up to min(P, T);    *)
(* the Pipe Tags rows beyond the P-th keep the NewCode they had (the       *)
(* grid's rows are fixed while the editor is open, so they still have the  *)
(* code they were loaded with).                                            *)
(***************************************************************************)
TagRows == RowsOf(frows, "Pipe Tags", 1)

C23_TagRowsMirrorPipeNumbers ==
    AutoFillDone =>
        \A i \in 1..Len(TagRows) :
            frows[TagRows[i]].NewCode =
                IF i <= Len(PipeRows)
                THEN ParseBase(ftext).val.base \o Dot \o Str(i)
                ELSE OldCode

\* A tag row listed before the only pipe, and a second tag row.
C23_Witness ==
    /\ AutoFillDone
    /\ ftext = <<"4", ".", "1", ".", "1">>
    /\ TagRows = <<1, 3>>
    /\ PipeRows = <<2>>
    /\ frows[1].NewCode = <<"4", ".", "1", ".", "1", ".", "1">>
    /\ frows[3].NewCode = OldCode

(***************************************************************************)
(* C24.  When the editor opens, no element Id appears in two rows of the   *)
(* grid: filter_relevant_elements returns at most one record per element.  *)
(***************************************************************************)
C24_OneRowPerElement ==
    (pc = "editor" /\ event = NoEvent) =>
        \A r1, r2 \in 1..Len(dataGrid) :
            dataGrid[r1].Id = dataGrid[r2].Id => r1 = r2

(***************************************************************************)
(* C25.  While the editor is open, a Pipes or Pipe Fittings row shows      *)
(* "Remove Tag" exactly when the document holds a pipe tag hosted on the   *)
(* row's element, and "Add/Place Tag" exactly when it holds none.          *)
(***************************************************************************)
C25_ButtonMatchesDocument ==
    pc = "editor" =>
        \A r \in 1..Len(dataGrid) :
            (dataGrid[r].Category \in HostCategories
             /\ dataGrid[r].Id \in DOMAIN elems) =>
                /\ dataGrid[r].TagStatus = "Remove Tag" <=> TagsOn(elems, dataGrid[r].Id) # {}
                /\ dataGrid[r].TagStatus = "Add/Place Tag" <=> TagsOn(elems, dataGrid[r].Id) = {}

(***************************************************************************)
(* C26.  When the editor is closed with Cancel, the document is as it was  *)
(* before the script ran: it holds the elements it started with, with      *)
(* their Comments, and no text note of the script.                         *)
(***************************************************************************)
C26_CancelLeavesDocument ==
    (pc = "exited" /\ event.handler = "Cancel") =>
        /\ \E pretagged \in BOOLEAN :
              /\ elems = Document(pretagged)
              /\ InSeq(3, gathered_elements) => pretagged
        /\ notes = <<>>

====
